---------------------------- MODULE Spec2Model ----------------------------
(***************************************************************************)
(* A model of the snapshot resolution pipeline of                          *)
(* netlify/functions/archive.js: the deadline-aware fetcher, the content   *)
(* extractor's quality figures, the candidate selector, the archive URL    *)
(* rewriter and the request handler that sequences them.                   *)
(*                                                                         *)
(* Time is counted in milliseconds since the handler was invoked and       *)
(* advances only while an outbound call (a fetch, or the reading of a      *)
(* response body) is pending.  Text lengths are integers; a coverage       *)
(* e / s is kept as the pair [n |-> e, d |-> s] and compared by cross      *)
(* multiplication, which agrees with the IEEE doubles of the source for    *)
(* lengths below PARSE_HTML_MAX_LENGTH.                                    *)
(***************************************************************************)
EXTENDS Integers, Sequences, FiniteSets, TLC

VARIABLES
    pc,          \* position of the handler
    now,         \* Date.now(), ms since the invocation
    req,         \* the handler's own state (event, variants, index, bestFallback)
    rv,          \* locals of the running resolveArchiveForTarget
    sn,          \* locals of the running attemptSnapshot / resolveBestExtractionForSnapshot
    inflight,    \* the outbound call in flight, or NULL
    response,    \* the response the handler returned, or NULL
    hist,        \* history of the run, for the properties
    world,       \* upstream responses: AnyWorld (chosen per call) or a fixed world
    twin,        \* the previous run against the same world
    probe        \* inputs and results of the pure functions under check

vars == <<pc, now, req, rv, sn, inflight, response, hist, world, twin, probe>>

NULL == [null |-> TRUE]

Max(a, b) == IF a >= b THEN a ELSE b
Min(a, b) == IF a <= b THEN a ELSE b
Abs(a) == IF a >= 0 THEN a ELSE -a
Sign(a) == IF a > 0 THEN 1 ELSE IF a < 0 THEN -1 ELSE 0

(***************************************************************************)
(* Program constants.                                                      *)
(***************************************************************************)
HANDLER_DEADLINE_MS == 34000
SNAPSHOT_FETCH_TIMEOUT_MS == 9000
API_FETCH_TIMEOUT_MS == 4500
DEADLINE_RESERVE_MS == 250
MIN_TIME_FOR_EXTRA_SNAPSHOT_MS == 4000
MIN_FETCH_TIMEOUT_MS == 250
MAX_SNAPSHOT_ATTEMPTS == 2
CDX_DEFAULT_LIMIT == 5

(***************************************************************************)
(* Coverage as a ratio.                                                    *)
(***************************************************************************)
Ratio(n, d) == [n |-> n, d |-> d]
ZeroRatio == Ratio(0, 1)
\* r >= p/q, r < p/q, for a ratio r and a decimal constant p/q
RatioGe(r, p, q) == r.n * q >= p * r.d
RatioLt(r, p, q) == r.n * q < p * r.d
\* sign of (a - b) for two ratios
RatioCmp(a, b) == Sign(a.n * b.d - b.n * a.d)

(***************************************************************************)
(* resolveSourceLength: the baseline for completeness checks.              *)
(***************************************************************************)
\* a body of exactly 1.9 times the article counts as much larger
resolveSourceLengthAtLeast(sourceArticleLength, sourceBodyLength) ==
    LET sourceLength == IF sourceArticleLength > 0 THEN sourceArticleLength
                        ELSE sourceBodyLength
    IN  IF /\ sourceArticleLength > 0
           /\ sourceBodyLength > 0
           /\ sourceBodyLength >= 5000
           /\ sourceBodyLength * 10 >= sourceArticleLength * 19
        THEN sourceBodyLength
        ELSE sourceLength

resolveSourceLength(sourceArticleLength, sourceBodyLength) ==
    LET sourceLength == IF sourceArticleLength > 0 THEN sourceArticleLength
                        ELSE sourceBodyLength
    IN  IF /\ sourceArticleLength > 0
           /\ sourceBodyLength > 0
           /\ sourceBodyLength >= 5000
           /\ sourceBodyLength * 10 > sourceArticleLength * 19
        THEN sourceBodyLength
        ELSE sourceLength

(***************************************************************************)
(* buildExtractionWarning: NULL, or the "possibly incomplete" warning.     *)
(***************************************************************************)
buildExtractionWarningGapInclusive(extractedTextLength, sourceArticleLength, sourceBodyLength) ==
    LET sourceLength == resolveSourceLength(sourceArticleLength, sourceBodyLength)
        coverage == Ratio(extractedTextLength, sourceLength)
        missingChars == sourceLength - extractedTextLength
        likelyIncomplete ==
            /\ sourceLength >= 3500
            /\ extractedTextLength >= 800
            /\ RatioLt(coverage, 58, 100)
            /\ missingChars >= 1800
    IN  IF extractedTextLength = 0 \/ sourceLength = 0 THEN NULL
        ELSE IF ~likelyIncomplete THEN NULL
        ELSE [kind |-> "possibly_incomplete",
              coverage |-> coverage,
              extractedTextLength |-> extractedTextLength,
              sourceTextLength |-> sourceLength]

buildExtractionWarning(extractedTextLength, sourceArticleLength, sourceBodyLength) ==
    LET sourceLength == resolveSourceLength(sourceArticleLength, sourceBodyLength)
        coverage == Ratio(extractedTextLength, sourceLength)
        missingChars == sourceLength - extractedTextLength
        likelyIncomplete ==
            /\ sourceLength >= 3500
            /\ extractedTextLength >= 800
            /\ RatioLt(coverage, 58, 100)
            /\ missingChars > 1800
    IN  IF extractedTextLength = 0 \/ sourceLength = 0 THEN NULL
        ELSE IF ~likelyIncomplete THEN NULL
        ELSE [kind |-> "possibly_incomplete",
              coverage |-> coverage,
              extractedTextLength |-> extractedTextLength,
              sourceTextLength |-> sourceLength]

(***************************************************************************)
(* A fetched HTML document, as far as extraction measures it:              *)
(*   hasArticle   readability returned content                             *)
(*   readability  text length of the cleaned readability content           *)
(*   fallback     text length of the cleaned fallback node (0: no node)    *)
(*   jsonLd       text length of the JSON-LD article body (0: none, the    *)
(*                extractor drops bodies under 1200 characters)            *)
(*   heroCaption  text the prepended hero figure adds to the JSON-LD body  *)
(*   article, body  sourceArticleLength and sourceBodyLength               *)
(***************************************************************************)
Doc(hasArticle, readability, fallback, jsonLd, heroCaption, article, body) ==
    [hasArticle |-> hasArticle, readability |-> readability, fallback |-> fallback,
     jsonLd |-> jsonLd, heroCaption |-> heroCaption, article |-> article, body |-> body]

\* lines 1178-1202: the fallback node replaces the readability result
fallbackIsStrongerOrEqual(fallbackLength, extractedTextLength) ==
    /\ fallbackLength >= 1200
    /\ fallbackLength * 10 >= extractedTextLength * 12
    /\ fallbackLength - extractedTextLength >= 800

fallbackIsStronger(fallbackLength, extractedTextLength) ==
    /\ fallbackLength >= 1200
    /\ fallbackLength * 10 > extractedTextLength * 12
    /\ fallbackLength - extractedTextLength >= 800

shouldTryFallbackBelowSource(extractedTextLength, sourceArticleLength) ==
    \/ extractedTextLength < 4500
    \/ (sourceArticleLength > 0 /\ extractedTextLength < sourceArticleLength)

shouldTryFallback(extractedTextLength, sourceArticleLength) ==
    \/ extractedTextLength < 4500
    \/ (sourceArticleLength > 0 /\ extractedTextLength * 4 < sourceArticleLength * 3)

(***************************************************************************)
(* JSON-LD values (lines 315-358).  A string is its text and its length,   *)
(* an array the sequence of its items, an object the sequence of its       *)
(* entries <<key, value>> in the order of Object.keys.                     *)
(***************************************************************************)
JsonNull == [kind |-> "null"]
JsonUndefined == [kind |-> "undefined"]
JsonNumber(value) == [kind |-> "number", value |-> value]
JsonString(text, length) == [kind |-> "string", text |-> text, length |-> length]
JsonArray(items) == [kind |-> "array", items |-> items]
JsonObject(entries) == [kind |-> "object", entries |-> entries]
EmptyString == JsonString("", 0)

\* `!value`
JsonFalsy(value) ==
    \/ value.kind \in {"null", "undefined"}
    \/ (value.kind = "number" /\ value.value = 0)
    \/ (value.kind = "string" /\ value.length = 0)

\* value[key]
JsonGet(object, key) ==
    LET at == {i \in 1..Len(object.entries) : object.entries[i][1] = key}
    IN  IF at = {} THEN JsonUndefined ELSE object.entries[CHOOSE i \in at : TRUE][2]

directKeys == <<"articleBody", "text", "body">>

Longer(candidate, best) == IF candidate.length > best.length THEN candidate ELSE best

RECURSIVE findLongestArticleBodyInJsonLd(_)
RECURSIVE LongestOfItems(_, _)
RECURSIVE LongestOfDirectKeys(_, _, _)
RECURSIVE LongestOfOtherKeys(_, _)

\* lines 318-321: the reduce over an array
LongestOfItems(items, best) ==
    IF items = <<>> THEN best
    ELSE LongestOfItems(Tail(items),
                        Longer(findLongestArticleBodyInJsonLd(Head(items)), best))

\* lines 330-340: the direct keys, in their order
LongestOfDirectKeys(value, keys, best) ==
    IF keys = <<>> THEN best
    ELSE LET raw == JsonGet(value, Head(keys))
         IN  LongestOfDirectKeys(value, Tail(keys),
                 IF raw.kind = "string" /\ raw.length > best.length THEN raw
                 ELSE IF ~JsonFalsy(raw) /\ raw.kind \in {"array", "object"}
                      THEN Longer(findLongestArticleBodyInJsonLd(raw), best)
                 ELSE best)

\* lines 349-355: every other key
LongestOfOtherKeys(entries, best) ==
    IF entries = <<>> THEN best
    ELSE LET key == Head(entries)[1]
             skipped == key \in {directKeys[i] : i \in 1..Len(directKeys)} \/ key = "@graph"
         IN  LongestOfOtherKeys(Tail(entries),
                 IF skipped THEN best
                 ELSE Longer(findLongestArticleBodyInJsonLd(Head(entries)[2]), best))

findLongestArticleBodyInJsonLd(value) ==
    IF JsonFalsy(value) THEN EmptyString
    ELSE IF value.kind = "array" THEN LongestOfItems(value.items, EmptyString)
    ELSE IF value.kind = "string" THEN value
    ELSE IF value.kind # "object" THEN EmptyString
    ELSE LET direct == LongestOfDirectKeys(value, directKeys, EmptyString)
             graph == JsonGet(value, "@graph")
             withGraph == IF JsonFalsy(graph) THEN direct
                          ELSE Longer(findLongestArticleBodyInJsonLd(graph), direct)
         IN  LongestOfOtherKeys(value.entries, withGraph)

\* a JSON-LD body over the floor is taken whatever was extracted before
jsonLdIsStrongerByFloorOnly(jsonLdLength, extractedTextLength) ==
    jsonLdLength >= 1200

\* lines 1204-1214: the JSON-LD body replaces the current content
jsonLdIsStronger(jsonLdLength, extractedTextLength) ==
    /\ jsonLdLength >= 1200
    /\ jsonLdLength * 10 > extractedTextLength * 13
    /\ jsonLdLength - extractedTextLength >= 900

ExtractionCoverage(extractedTextLength, sourceTextLength) ==
    IF sourceTextLength > 0 THEN Ratio(extractedTextLength, sourceTextLength)
    ELSE ZeroRatio

(***************************************************************************)
(* extractFromHtmlCandidate: NULL when readability yields nothing, else    *)
(* the extraction with its _quality.  content names the text that was      *)
(* adopted, html the document it came from.                                *)
(***************************************************************************)
extractFromHtmlCandidate(html, variant) ==
    IF ~html.hasArticle THEN NULL
    ELSE
    LET afterReadability == html.readability
        tryFallback == shouldTryFallback(afterReadability, html.article)
        useFallback == /\ tryFallback
                       /\ html.fallback > 0
                       /\ fallbackIsStronger(html.fallback, afterReadability)
        afterFallback == IF useFallback THEN html.fallback ELSE afterReadability
        useJsonLd == /\ html.jsonLd > 0
                     /\ jsonLdIsStronger(html.jsonLd, afterFallback)
        extractedTextLength == IF useJsonLd THEN html.jsonLd + html.heroCaption
                               ELSE afterFallback
        sourceTextLength == resolveSourceLength(html.article, html.body)
        extractionWarning ==
            buildExtractionWarning(extractedTextLength, html.article, html.body)
    IN  [content |-> IF useJsonLd THEN "jsonld"
                     ELSE IF useFallback THEN "fallback" ELSE "readability",
         html |-> html,
         extractionWarning |-> extractionWarning,
         extractionSource |-> variant,
         \* extractedTextLength after readability, after the fallback step and
         \* after the JSON-LD step
         lengths |-> <<afterReadability, afterFallback, extractedTextLength>>,
         quality |-> [hasWarning |-> extractionWarning # NULL,
                      extractedTextLength |-> extractedTextLength,
                      coverage |-> ExtractionCoverage(extractedTextLength, sourceTextLength),
                      sourceTextLength |-> sourceTextLength]]

(***************************************************************************)
(* compareExtractionQuality: negative when left is better, positive when   *)
(* right is better.  Only the sign of the result is used by the callers;   *)
(* the coverage branch returns the sign of the difference.                 *)
(***************************************************************************)
\* the warnings are looked at before the lengths
compareExtractionQualityWarningFirst(left, right) ==
    IF left = NULL /\ right = NULL THEN 0
    ELSE IF left = NULL THEN 1
    ELSE IF right = NULL THEN -1
    ELSE
    LET leftLength == left.quality.extractedTextLength
        rightLength == right.quality.extractedTextLength
        leftWarning == IF left.quality.hasWarning THEN 1 ELSE 0
        rightWarning == IF right.quality.hasWarning THEN 1 ELSE 0
    IN  IF leftWarning # rightWarning THEN leftWarning - rightWarning
        ELSE IF leftLength # rightLength THEN rightLength - leftLength
        ELSE RatioCmp(right.quality.coverage, left.quality.coverage)

compareExtractionQualityWrongSign(left, right) ==
    IF left = NULL /\ right = NULL THEN 0
    ELSE IF left = NULL THEN 1
    ELSE IF right = NULL THEN -1
    ELSE
    LET leftLength == left.quality.extractedTextLength
        rightLength == right.quality.extractedTextLength
        maxLength == Max(leftLength, rightLength)
        minLength == Min(leftLength, rightLength)
        ratioAtLeast125 == IF minLength > 0 THEN maxLength * 4 >= minLength * 5
                           ELSE maxLength > 0
        lengthDelta == Abs(rightLength - leftLength)
        leftWarning == IF left.quality.hasWarning THEN 1 ELSE 0
        rightWarning == IF right.quality.hasWarning THEN 1 ELSE 0
    IN  IF ratioAtLeast125 /\ lengthDelta >= 1200 THEN leftLength - rightLength
        ELSE IF leftWarning # rightWarning THEN leftWarning - rightWarning
        ELSE IF leftLength # rightLength THEN rightLength - leftLength
        ELSE RatioCmp(right.quality.coverage, left.quality.coverage)

compareExtractionQuality(left, right) ==
    IF left = NULL /\ right = NULL THEN 0
    ELSE IF left = NULL THEN 1
    ELSE IF right = NULL THEN -1
    ELSE
    LET leftLength == left.quality.extractedTextLength
        rightLength == right.quality.extractedTextLength
        maxLength == Max(leftLength, rightLength)
        minLength == Min(leftLength, rightLength)
        \* lengthRatio >= 1.25 (Infinity when only minLength is 0, 1 when both are)
        ratioAtLeast125 == IF minLength > 0 THEN maxLength * 4 >= minLength * 5
                           ELSE maxLength > 0
        lengthDelta == Abs(rightLength - leftLength)
        leftWarning == IF left.quality.hasWarning THEN 1 ELSE 0
        rightWarning == IF right.quality.hasWarning THEN 1 ELSE 0
    IN  IF ratioAtLeast125 /\ lengthDelta >= 1200 THEN rightLength - leftLength
        ELSE IF leftWarning # rightWarning THEN leftWarning - rightWarning
        ELSE IF leftLength # rightLength THEN rightLength - leftLength
        ELSE RatioCmp(right.quality.coverage, left.quality.coverage)

\* chooseBestExtraction([best, candidate].filter(Boolean)), as the one caller uses it
chooseBestExtraction(best, candidate) ==
    IF best = NULL THEN candidate
    ELSE IF candidate = NULL THEN best
    ELSE IF compareExtractionQuality(candidate, best) < 0 THEN candidate ELSE best

(***************************************************************************)
(* shouldTryAlternateVariant / shouldTryAdditionalSnapshots.               *)
(***************************************************************************)
\* without a source length, the limit of shouldTryAdditionalSnapshots
shouldTryAlternateVariantLimit5200(extraction) ==
    IF extraction = NULL THEN TRUE
    ELSE
    LET quality == extraction.quality
        sourceLength == quality.sourceTextLength
        extractedLength == quality.extractedTextLength
        coverage == quality.coverage
        missingChars == sourceLength - extractedLength
    IN  IF sourceLength <= 0 THEN extractedLength < 5200
        ELSE IF RatioGe(coverage, 68, 100) THEN FALSE
        ELSE IF extractedLength >= 6000 /\ RatioGe(coverage, 60, 100) THEN FALSE
        ELSE IF missingChars <= 1400 THEN FALSE
        ELSE IF RatioLt(coverage, 50, 100) THEN TRUE
        ELSE IF quality.hasWarning /\ RatioLt(coverage, 62, 100) /\ missingChars > 1800
             THEN TRUE
        ELSE extractedLength < 3000

shouldTryAlternateVariant(extraction) ==
    IF extraction = NULL THEN TRUE
    ELSE
    LET quality == extraction.quality
        sourceLength == quality.sourceTextLength
        extractedLength == quality.extractedTextLength
        coverage == quality.coverage
        missingChars == sourceLength - extractedLength
    IN  IF sourceLength <= 0 THEN extractedLength < 4200
        ELSE IF RatioGe(coverage, 68, 100) THEN FALSE
        ELSE IF extractedLength >= 6000 /\ RatioGe(coverage, 60, 100) THEN FALSE
        ELSE IF missingChars <= 1400 THEN FALSE
        ELSE IF RatioLt(coverage, 50, 100) THEN TRUE
        ELSE IF quality.hasWarning /\ RatioLt(coverage, 62, 100) /\ missingChars > 1800
             THEN TRUE
        ELSE extractedLength < 3000

\* a warning asks for further captures over the gap that raised it
shouldTryAdditionalSnapshotsGap1800(resolvedPage) ==
    IF resolvedPage = NULL THEN TRUE
    ELSE
    LET quality == resolvedPage.extraction.quality
        sourceLength == quality.sourceTextLength
        extractedLength == quality.extractedTextLength
        coverage == quality.coverage
        missingChars == sourceLength - extractedLength
    IN  IF sourceLength <= 0 THEN extractedLength < 5200
        ELSE IF RatioGe(coverage, 72, 100) THEN FALSE
        ELSE IF extractedLength >= 7000 /\ RatioGe(coverage, 65, 100) THEN FALSE
        ELSE IF missingChars <= 1800 THEN FALSE
        ELSE IF quality.hasWarning /\ RatioLt(coverage, 65, 100) /\ missingChars > 1800
             THEN TRUE
        ELSE IF RatioLt(coverage, 55, 100) THEN TRUE
        ELSE sourceLength >= 9000 /\ RatioLt(coverage, 66, 100)

shouldTryAdditionalSnapshots(resolvedPage) ==
    IF resolvedPage = NULL THEN TRUE
    ELSE
    LET quality == resolvedPage.extraction.quality
        sourceLength == quality.sourceTextLength
        extractedLength == quality.extractedTextLength
        coverage == quality.coverage
        missingChars == sourceLength - extractedLength
    IN  IF sourceLength <= 0 THEN extractedLength < 5200
        ELSE IF RatioGe(coverage, 72, 100) THEN FALSE
        ELSE IF extractedLength >= 7000 /\ RatioGe(coverage, 65, 100) THEN FALSE
        ELSE IF missingChars <= 1800 THEN FALSE
        ELSE IF quality.hasWarning /\ RatioLt(coverage, 65, 100) /\ missingChars > 2200
             THEN TRUE
        ELSE IF RatioLt(coverage, 55, 100) THEN TRUE
        ELSE sourceLength >= 9000 /\ RatioLt(coverage, 66, 100)


(***************************************************************************)
(* Target URLs.  A URL string is kept as the parts the WHATWG URL parser   *)
(* tells apart: the scheme, the labels of the host name, the pieces of the *)
(* path ("/" and the segments between) and the query.  A string as typed   *)
(* may spell scheme and host in upper case and may leave the path out;     *)
(* `new URL(...)` then `toString()` gives the serialized form.             *)
(***************************************************************************)
Url(scheme, host, path, search) ==
    [scheme |-> scheme, host |-> host, path |-> path, search |-> search]

\* the parser lower-cases the scheme and the host
LowerLabel(label) ==
    CASE label = "HTTP" -> "http"
      [] label = "EXAMPLE" -> "example"
      [] label = "LOCALHOST" -> "localhost"
      [] OTHER -> label

\* new URL(url): the serialized parts; the path of an http(s) URL is never empty
ParseUrl(url) ==
    [scheme |-> LowerLabel(url.scheme),
     host |-> [i \in 1..Len(url.host) |-> LowerLabel(url.host[i])],
     path |-> IF url.path = <<>> THEN <<"/">> ELSE url.path,
     search |-> url.search]

\* labels of one to three digits, and bracketed IPv6 literals (which hold a ":")
DigitLabels == {"0", "1", "127"}
ColonLabels == {"[::1]"}

isLikelyIpHost(hostname) ==
    IF hostname = <<>> THEN FALSE
    ELSE IF Len(hostname) = 4 /\ \A i \in 1..4 : hostname[i] \in DigitLabels THEN TRUE
    ELSE \E i \in 1..Len(hostname) : hostname[i] \in ColonLabels

\* any host that is neither localhost nor an IP literal, with a dot or without
canToggleWwwDotless(hostname) ==
    IF hostname = <<>> THEN FALSE
    ELSE IF hostname[Len(hostname)] = "localhost" THEN FALSE
    ELSE ~isLikelyIpHost(hostname)

canToggleWww(hostname) ==
    IF hostname = <<>> THEN FALSE
    ELSE IF hostname[Len(hostname)] = "localhost" THEN FALSE
    ELSE IF isLikelyIpHost(hostname) THEN FALSE
    ELSE Len(hostname) >= 2

toggleWwwForUrl(url) ==
    LET parsed == ParseUrl(url)
    IN  IF ~canToggleWww(parsed.host) THEN NULL
        ELSE IF Len(parsed.host) >= 2 /\ parsed.host[1] = "www"
        THEN [parsed EXCEPT !.host = Tail(@)]
        ELSE [parsed EXCEPT !.host = <<"www">> \o @]

toggleTrailingSlashForUrl(url) ==
    LET parsed == ParseUrl(url)
    IN  IF parsed.path = <<"/">> THEN NULL
        ELSE IF parsed.path[Len(parsed.path)] = "/"
        THEN [parsed EXCEPT !.path = IF Len(@) = 1 THEN <<"/">>
                                      ELSE SubSeq(@, 1, Len(@) - 1)]
        ELSE [parsed EXCEPT !.path = Append(@, "/")]

\* candidates.forEach: drop the nulls and the duplicates, keep the order
RECURSIVE DedupeCandidates(_, _)
DedupeCandidates(candidates, variants) ==
    IF candidates = <<>> THEN variants
    ELSE LET candidate == Head(candidates)
             seen == {variants[i] : i \in 1..Len(variants)}
         IN  DedupeCandidates(Tail(candidates),
                 IF candidate = NULL \/ candidate \in seen THEN variants
                 ELSE Append(variants, candidate))

buildTargetUrlVariants(targetUrl) ==
    LET slash == toggleTrailingSlashForUrl(targetUrl)
        www == toggleWwwForUrl(targetUrl)
        slashThenWww == IF slash # NULL THEN toggleWwwForUrl(slash) ELSE NULL
        wwwThenSlash == IF www # NULL THEN toggleTrailingSlashForUrl(www) ELSE NULL
    IN  DedupeCandidates(<<targetUrl, slash, www, slashThenWww, wwwThenSlash>>, <<>>)

(***************************************************************************)
(* Captures.  A timestamp is kept as its digit count and its rank among    *)
(* the timestamps of the run; an archive URL as the parts buildArchiveUrl  *)
(* puts together (lines 537-539).                                          *)
(***************************************************************************)
Timestamp(value) == [digits |-> 14, value |-> value]

ArchiveUrlOf(target, timestamp, modifier) ==
    [scheme |-> "https", timestamp |-> timestamp, modifier |-> modifier, target |-> target]

\* the timestamp the index sent, taken as it is
extractTimestampUnchecked(archiveUrl, fallbackTimestamp) ==
    IF fallbackTimestamp # NULL THEN fallbackTimestamp
    ELSE IF archiveUrl.timestamp # NULL /\ archiveUrl.timestamp.digits >= 14
         THEN [digits |-> 14, value |-> archiveUrl.timestamp.value]
    ELSE NULL

\* extractTimestamp: the fallback when it is 14 digits, else the 14 digits in the URL
extractTimestamp(archiveUrl, fallbackTimestamp) ==
    IF fallbackTimestamp # NULL /\ fallbackTimestamp.digits = 14 THEN fallbackTimestamp
    ELSE IF archiveUrl.timestamp # NULL /\ archiveUrl.timestamp.digits >= 14
         THEN [digits |-> 14, value |-> archiveUrl.timestamp.value]
    ELSE NULL

SnapshotEntry(url, timestamp, original) ==
    [url |-> url, timestamp |-> timestamp, original |-> original]

\* the capture told by the archive URL it was named with
snapshotKeyByUrl(snapshotEntry, targetUrl) ==
    <<snapshotEntry.url, snapshotEntry.original>>

snapshotKey(snapshotEntry, targetUrl) ==
    <<extractTimestamp(snapshotEntry.url, snapshotEntry.timestamp), snapshotEntry.original>>

buildSnapshotVariantCandidates(archiveUrl, targetUrl, timestamp) ==
    LET replay == <<[url |-> archiveUrl, variant |-> "replay_snapshot"]>>
        idUrl == ArchiveUrlOf(targetUrl, timestamp, "id")
    IN  IF timestamp # NULL /\ idUrl # archiveUrl
        THEN Append(replay, [url |-> idUrl, variant |-> "id_snapshot"])
        ELSE replay

timestampToNumber(value) ==
    IF value = NULL THEN 0
    ELSE IF value.digits < 14 THEN 0
    ELSE value.value

\* on a tie of quality and timestamp the candidate takes the incumbent's place
chooseBestResolvedPageNewerOrEqual(left, right) ==
    IF left = NULL THEN right
    ELSE IF right = NULL THEN left
    ELSE LET qualityOrder == compareExtractionQuality(right.extraction, left.extraction)
         IN  IF qualityOrder < 0 THEN right
             ELSE IF qualityOrder > 0 THEN left
             ELSE IF timestampToNumber(right.archiveTimestamp)
                       >= timestampToNumber(left.archiveTimestamp)
                  THEN right
             ELSE left

\* the candidate of the capture attempted last takes the place of the incumbent
chooseBestResolvedPageLatest(left, right) ==
    IF left = NULL THEN right
    ELSE IF right = NULL THEN left
    ELSE right

chooseBestResolvedPage(left, right) ==
    IF left = NULL THEN right
    ELSE IF right = NULL THEN left
    ELSE LET qualityOrder == compareExtractionQuality(right.extraction, left.extraction)
         IN  IF qualityOrder < 0 THEN right
             ELSE IF qualityOrder > 0 THEN left
             ELSE IF timestampToNumber(right.archiveTimestamp)
                       > timestampToNumber(left.archiveTimestamp)
                  THEN right
             ELSE left


(***************************************************************************)
(* Bounds of the model: the latencies the upstream calls may take, the     *)
(* rows the historical index may return, the documents a snapshot may      *)
(* hold.                                                                   *)
(***************************************************************************)
MaxCdxRows == 3
MaxTimestamp == 3

\* a fetch answers at once, or is still pending at every timeout the code uses
FetchLatencies == {0, 10000}
\* a body arrives at once, or trickles in until 400 ms or 200 ms before the deadline
\* of a handler that had spent no time yet
BodyLatencies == {0, 33600, 33800}

UnreadableDoc == Doc(FALSE, 0, 0, 0, 0, 0, 4000)
PoorDoc == Doc(TRUE, 1000, 0, 0, 0, 10000, 10500)
GoodDoc == Doc(TRUE, 6000, 0, 0, 0, 6200, 7000)
FairDoc == Doc(TRUE, 3000, 0, 0, 0, 10000, 10500)
SnapshotDocs == {UnreadableDoc, PoorDoc, GoodDoc}

\* a URL with no variant but itself, one with two and one with four variants
LocalUrl == Url("http", <<"localhost">>, <<"/">>, "")
RootUrl == Url("http", <<"www", "example", "com">>, <<"/">>, "")
PageUrl == Url("https", <<"example", "com">>, <<"/", "a">>, "")

GetEvent(url, hash) ==
    [httpMethod |-> "GET", url |-> [kind |-> "http", parsed |-> url, hash |-> hash]]

\* requests that are turned down before any lookup
FtpUrl == Url("ftp", <<"localhost">>, <<"/">>, "")
RejectedEvents ==
    [httpMethod : {"GET"},
     url : [kind : {"missing", "blank", "garbage"}, parsed : {NULL}, hash : {FALSE}]]
    \cup {[httpMethod |-> "GET", url |-> [kind |-> "ftp", parsed |-> FtpUrl, hash |-> FALSE]],
          [httpMethod |-> "POST", url |-> [kind |-> "http", parsed |-> LocalUrl, hash |-> FALSE]],
          [httpMethod |-> "POST", url |-> [kind |-> "missing", parsed |-> NULL, hash |-> FALSE]]}

Events == RejectedEvents \cup {GetEvent(LocalUrl, FALSE), GetEvent(LocalUrl, TRUE)}

\* the requests of the runs over several URL variants
VariantEvents == {GetEvent(RootUrl, FALSE), GetEvent(PageUrl, TRUE)}

(***************************************************************************)
(* Upstream responses.  A fetch either rejects with a network error or     *)
(* resolves with a response; the body is read afterwards.                  *)
(***************************************************************************)
NetworkError == [error |-> "NETWORK"]
HttpResponse(status, body) == [error |-> "none", status |-> status, body |-> body]
ResponseOk(res) == res.status >= 200 /\ res.status <= 299

Timestamps == {Timestamp(v) : v \in 1..MaxTimestamp}

\* what the availability index may name as the closest capture
ClosestFor(targetUrl) ==
    { SnapshotEntry([ArchiveUrlOf(targetUrl, ts, "") EXCEPT !.scheme = "http"], ts, targetUrl)
        : ts \in Timestamps }

AvailabilityBodies(targetUrl) ==
    {[kind |-> "unparsable"], [kind |-> "empty"]}
    \cup {[kind |-> "closest", closest |-> c] : c \in ClosestFor(targetUrl)}

AvailabilityResponses(targetUrl) ==
    {NetworkError, HttpResponse(503, [kind |-> "empty"])}
    \cup {HttpResponse(200, b) : b \in AvailabilityBodies(targetUrl)}

\* data rows [timestamp, original] of the historical index, most recent first
RECURSIVE DescendingRows(_, _)
DescendingRows(maxLen, below) ==
    {<<>>} \cup
    IF maxLen = 0 THEN {}
    ELSE UNION { { <<[timestamp |-> Timestamp(v)]>> \o rest
                     : rest \in DescendingRows(maxLen - 1, v + 1) }
                 : v \in 1..(below - 1) }

CdxBodies ==
    {[kind |-> "unparsable"]}
    \cup {[kind |-> "rows", rows |-> r] : r \in DescendingRows(MaxCdxRows, MaxTimestamp + 1)}

CdxResponses ==
    {NetworkError, HttpResponse(503, [kind |-> "unparsable"])}
    \cup {HttpResponse(200, b) : b \in CdxBodies}

SnapshotResponses ==
    {NetworkError, HttpResponse(404, UnreadableDoc)}
    \cup {HttpResponse(200, d) : d \in SnapshotDocs}

\* the save endpoint's body, as normalizeSaveDetail and the classifier read it:
\* the phrases within the first 597 characters of the tag-stripped text
\* The body itself is a sequence of chunks of markup: a run of visible text,
\* a tag, or a script/style element, each of some length and possibly ending
\* in a phrase.
SaveChunk(kind, phrase, length) == [kind |-> kind, phrase |-> phrase, length |-> length]
SaveText(empty, phrases) ==
    IF empty THEN <<>>
    ELSE <<SaveChunk("text", IF phrases = {} THEN "" ELSE CHOOSE p \in phrases : TRUE, 40)>>
\* robots.txt in upper case, past the cut of the detail, at the cut, inside a tag
RobotsBodies ==
    { <<SaveChunk("text", "ROBOTS.TXT", 40)>>,
      <<SaveChunk("text", "", 700), SaveChunk("text", "robots.txt", 40)>>,
      <<SaveChunk("text", "", 587), SaveChunk("text", "robots.txt", 10)>>,
      <<SaveChunk("text", "", 588), SaveChunk("text", "robots.txt", 10),
        SaveChunk("text", "", 3)>>,
      <<SaveChunk("tag", "robots.txt", 40), SaveChunk("text", "", 40)>>,
      <<SaveChunk("script", "robots.txt", 40)>> }
SaveBodies ==
    { SaveText(TRUE, {}), SaveText(FALSE, {}), SaveText(FALSE, {"robots.txt"}),
      SaveText(FALSE, {"archiving"}) }
    \cup RobotsBodies
ContentLocation == "/web/20240101000000/target"
SaveResponse(status, contentLocation, body) ==
    [error |-> "none", status |-> status, contentLocation |-> contentLocation, body |-> body]
SaveResponses ==
    {NetworkError}
    \cup { SaveResponse(200, cl, b) : cl \in {"", ContentLocation}, b \in SaveBodies }
    \cup { SaveResponse(st, "", b)
             : st \in {302, 401, 403, 404, 429, 503},
               b \in {SaveText(TRUE, {}), SaveText(FALSE, {"robots.txt"})} \cup RobotsBodies }

(***************************************************************************)
(* The upstream of a run.  AnyWorld: every call may get any response and   *)
(* every body any latency.  CoarseWorld: the same, from the smaller sets   *)
(* below, for the runs over several URL variants.  A fixed world: one      *)
(* response per requested URL, whatever the latency.                       *)
(***************************************************************************)
AnyWorld == [profile |-> "any"]
CoarseWorld == [profile |-> "coarse"]

CoarseAvailabilityResponses(targetUrl) ==
    { HttpResponse(503, [kind |-> "empty"]), HttpResponse(200, [kind |-> "empty"]),
      HttpResponse(200, [kind |-> "closest",
                         closest |-> SnapshotEntry(
                             [ArchiveUrlOf(targetUrl, Timestamp(1), "") EXCEPT
                                !.scheme = "http"],
                             Timestamp(1), targetUrl)]) }
CoarseCdxResponses ==
    { HttpResponse(200, [kind |-> "rows", rows |-> <<>>]),
      HttpResponse(200, [kind |-> "rows", rows |-> <<[timestamp |-> Timestamp(1)]>>]) }
CoarseSnapshotResponses == { HttpResponse(404, UnreadableDoc), HttpResponse(200, GoodDoc) }
CoarseSaveResponses ==
    { NetworkError, SaveResponse(200, ContentLocation, SaveText(TRUE, {})),
      SaveResponse(200, ContentLocation, SaveText(FALSE, {})),
      SaveResponse(200, ContentLocation, SaveText(FALSE, {"robots.txt"})),
      SaveResponse(403, "", SaveText(TRUE, {})) }

\* indexes that send timestamps of 8, 14 or 16 digits, or none; value names the
\* first 14 digits of a timestamp that has them
StampWorld == [profile |-> "stamps"]
Stamp(digits, value) == [digits |-> digits, value |-> value]
StampAvailabilityResponses(targetUrl) ==
    { HttpResponse(200, [kind |-> "empty"]) }
    \cup { HttpResponse(200, [kind |-> "closest",
                              closest |-> SnapshotEntry(
                                  ArchiveUrlOf(targetUrl, Stamp(inUrl, 1), ""),
                                  stamp, targetUrl)])
             : inUrl \in {8, 14, 16},
               stamp \in {NULL} \cup {Stamp(d, 1) : d \in {8, 14, 16}} }
StampCdxResponses ==
    { HttpResponse(200, [kind |-> "rows", rows |-> <<>>]) }
    \cup { HttpResponse(200, [kind |-> "rows", rows |-> <<[timestamp |-> Stamp(d, 2)]>>])
             : d \in {8, 14, 16} }
    \cup { HttpResponse(200, [kind |-> "rows",
                              rows |-> <<[timestamp |-> Stamp(d, 2)],
                                         [timestamp |-> Stamp(14, 1)]>>])
             : d \in {8, 14, 16} }
StampSnapshotResponses ==
    { HttpResponse(404, UnreadableDoc), HttpResponse(200, PoorDoc), HttpResponse(200, GoodDoc) }
StampSaveResponses == { SaveResponse(200, ContentLocation, SaveText(TRUE, {})) }

\* a request of four URL variants against an availability index that names no
\* capture and a historical index that lists none or two
LiveWorld == [profile |-> "live"]
LiveAvailabilityResponses(targetUrl) == { HttpResponse(200, [kind |-> "empty"]) }
LiveCdxResponses ==
    { HttpResponse(200, [kind |-> "rows", rows |-> <<>>]),
      HttpResponse(200, [kind |-> "rows", rows |-> <<[timestamp |-> Timestamp(2)],
                                                    [timestamp |-> Timestamp(1)]>>]) }
LiveSnapshotResponses == { HttpResponse(404, UnreadableDoc), HttpResponse(200, GoodDoc) }
LiveSaveResponses == { SaveResponse(200, ContentLocation, SaveText(TRUE, {})) }

AvailabilityUpstream(targetUrl) ==
    IF world = AnyWorld THEN AvailabilityResponses(targetUrl)
    ELSE IF world = LiveWorld THEN LiveAvailabilityResponses(targetUrl)
    ELSE IF world = StampWorld THEN StampAvailabilityResponses(targetUrl)
    ELSE IF world = CoarseWorld THEN CoarseAvailabilityResponses(targetUrl)
    ELSE {world.availability[targetUrl]}
CdxUpstream(targetUrl) ==
    IF world = AnyWorld THEN CdxResponses
    ELSE IF world = LiveWorld THEN LiveCdxResponses
    ELSE IF world = StampWorld THEN StampCdxResponses
    ELSE IF world = CoarseWorld THEN CoarseCdxResponses
    ELSE {world.cdx[targetUrl]}
SnapshotUpstream(url) ==
    IF world = AnyWorld THEN SnapshotResponses
    ELSE IF world = LiveWorld THEN LiveSnapshotResponses
    ELSE IF world = StampWorld THEN StampSnapshotResponses
    ELSE IF world = CoarseWorld THEN CoarseSnapshotResponses
    ELSE {world.snapshot[<<url.timestamp.value, url.modifier>>]}
SaveUpstream ==
    IF world = AnyWorld THEN SaveResponses
    ELSE IF world = LiveWorld THEN LiveSaveResponses
    ELSE IF world = StampWorld THEN StampSaveResponses
    ELSE IF world = CoarseWorld THEN CoarseSaveResponses
    ELSE {world.save}
\* in the coarse world a slow body leaves 4000 ms of the deadline
CoarseBodyLatencies == {0, 30000}
BodyLatenciesNow ==
    IF world = AnyWorld THEN BodyLatencies
    ELSE IF world = LiveWorld THEN {0}
    ELSE CoarseBodyLatencies
\* against fixed answers a fetch may also take a while without timing out
FixedFetchLatencies == {0, 2000, 10000}
FetchLatenciesNow ==
    IF world.profile = "fixed" THEN FixedFetchLatencies ELSE FetchLatencies
EventsNow ==
    IF world = AnyWorld THEN Events
    ELSE IF world = CoarseWorld THEN VariantEvents
    ELSE IF world = LiveWorld THEN {GetEvent(PageUrl, TRUE)}
    ELSE {GetEvent(LocalUrl, FALSE)}

(***************************************************************************)
(* Results and payloads.                                                   *)
(***************************************************************************)
EmptyPayload ==
    [status |-> "none", error |-> "none", originalUrl |-> NULL, resolvedUrl |-> NULL,
     archiveUrl |-> NULL, archiveSource |-> "none", archiveTimestamp |-> NULL,
     extraction |-> NULL, submission |-> NULL, details |-> NULL]

Result(statusCode, payload) == [statusCode |-> statusCode, payload |-> payload]
ErrorResult(statusCode, error) == Result(statusCode, [EmptyPayload EXCEPT !.error = error])

\* json(statusCode, payload)
json(statusCode, payload) == Result(statusCode, payload)

\* lines 1107-1117: tags, scripts and styles give way to a blank, the rest
\* is cut to 600 characters (597 and "..."); a phrase not wholly within the
\* cut is no longer in the detail
SAVE_DETAIL_MAX_LENGTH == 600

RECURSIVE TextLength(_)
TextLength(chunks) ==
    IF chunks = <<>> THEN 0 ELSE Head(chunks).length + TextLength(Tail(chunks))

RECURSIVE PhrasesWithin(_, _, _)
PhrasesWithin(chunks, offset, kept) ==
    IF chunks = <<>> THEN {}
    ELSE LET end == offset + Head(chunks).length
         IN  (IF Head(chunks).phrase # "" /\ end <= kept THEN {Head(chunks).phrase} ELSE {})
             \cup PhrasesWithin(Tail(chunks), end, kept)

IsText(chunk) == chunk.kind = "text"

normalizeSaveDetail(text) ==
    LET stripped == SelectSeq(text, IsText)
        length == TextLength(stripped)
        kept == IF length > SAVE_DETAIL_MAX_LENGTH THEN SAVE_DETAIL_MAX_LENGTH - 3 ELSE length
    IN  [empty |-> length = 0,
         phrases |-> PhrasesWithin(stripped, 0, kept),
         length |-> Min(length, SAVE_DETAIL_MAX_LENGTH)]

\* toLowerCase, on the phrases of a detail
LowerCase(phrase) == IF phrase = "ROBOTS.TXT" THEN "robots.txt" ELSE phrase

classifySaveFailureCaseSensitive(status, detail) ==
    LET lower == detail.phrases
    IN
    IF "robots.txt" \in lower
    THEN [category |-> "robots", label |-> "Blocked by robots.txt"]
    ELSE IF "access is forbidden" \in lower \/ status = 403
    THEN [category |-> "forbidden", label |-> "Access forbidden"]
    ELSE IF "unavailable for archiving" \in lower
            \/ "cannot be archived" \in lower
    THEN [category |-> "blocked", label |-> "Unavailable for archiving"]
    ELSE IF "rate limit" \in lower \/ status = 429
    THEN [category |-> "rate_limited", label |-> "Wayback rate limit"]
    ELSE IF status = 401 THEN [category |-> "unauthorized", label |-> "Unauthorized"]
    ELSE IF status = 404 THEN [category |-> "not_found", label |-> "Not found"]
    ELSE IF status >= 500
    THEN [category |-> "service_error", label |-> "Wayback service error"]
    ELSE IF "blocked" \in lower
    THEN [category |-> "blocked", label |-> "Unavailable for archiving"]
    ELSE [category |-> "unknown", label |-> "Unavailable for archiving"]

classifySaveFailure(status, detail) ==
    LET lower == {LowerCase(p) : p \in detail.phrases}
    IN
    IF "robots.txt" \in lower
    THEN [category |-> "robots", label |-> "Blocked by robots.txt"]
    ELSE IF "access is forbidden" \in lower \/ status = 403
    THEN [category |-> "forbidden", label |-> "Access forbidden"]
    ELSE IF "unavailable for archiving" \in lower
            \/ "cannot be archived" \in lower
    THEN [category |-> "blocked", label |-> "Unavailable for archiving"]
    ELSE IF "rate limit" \in lower \/ status = 429
    THEN [category |-> "rate_limited", label |-> "Wayback rate limit"]
    ELSE IF status = 401 THEN [category |-> "unauthorized", label |-> "Unauthorized"]
    ELSE IF status = 404 THEN [category |-> "not_found", label |-> "Not found"]
    ELSE IF status >= 500
    THEN [category |-> "service_error", label |-> "Wayback service error"]
    ELSE IF "blocked" \in lower
    THEN [category |-> "blocked", label |-> "Unavailable for archiving"]
    ELSE [category |-> "unknown", label |-> "Unavailable for archiving"]

scoreFallbackResultClientErrorFirst(statusCode, payload, variantIndex) ==
    LET status == payload.status
        score ==
            IF statusCode = 200 /\ status = "archived_link_only" THEN 510
            ELSE IF statusCode = 200 /\ status = "submitted" THEN 500
            ELSE IF statusCode = 200 /\ status = "blocked" THEN 450
            ELSE IF statusCode = 200 /\ status # "none" THEN 400
            ELSE IF statusCode >= 400 /\ statusCode < 500 THEN 350
            ELSE IF statusCode = 502 THEN 300
            ELSE IF statusCode = 500 THEN 250
            ELSE 100
    IN  score - variantIndex

scoreFallbackResultSteepPenalty(statusCode, payload, variantIndex) ==
    LET status == payload.status
        score ==
            IF statusCode = 200 /\ status = "archived_link_only" THEN 510
            ELSE IF statusCode = 200 /\ status = "submitted" THEN 500
            ELSE IF statusCode = 200 /\ status = "blocked" THEN 450
            ELSE IF statusCode = 200 /\ status # "none" THEN 400
            ELSE IF statusCode = 502 THEN 300
            ELSE IF statusCode = 500 THEN 250
            ELSE IF statusCode >= 400 /\ statusCode < 500 THEN 200
            ELSE 100
    IN  score - 100 * variantIndex

scoreFallbackResult(statusCode, payload, variantIndex) ==
    LET status == payload.status
        score ==
            IF statusCode = 200 /\ status = "archived_link_only" THEN 510
            ELSE IF statusCode = 200 /\ status = "submitted" THEN 500
            ELSE IF statusCode = 200 /\ status = "blocked" THEN 450
            ELSE IF statusCode = 200 /\ status # "none" THEN 400
            ELSE IF statusCode = 502 THEN 300
            ELSE IF statusCode = 500 THEN 250
            ELSE IF statusCode >= 400 /\ statusCode < 500 THEN 200
            ELSE 100
    IN  score - variantIndex

\* resolvedUrl set on every 200 result, the requested URL's own included
decorateVariantResponseAlwaysResolved(result, requestedUrl, resolvedUrl) ==
    IF result.statusCode = 200
    THEN Result(200, [result.payload EXCEPT
                        !.originalUrl = requestedUrl,
                        !.resolvedUrl = resolvedUrl])
    ELSE result

decorateVariantResponse(result, requestedUrl, resolvedUrl) ==
    IF result.statusCode = 200
    THEN Result(200, [result.payload EXCEPT
                        !.originalUrl = requestedUrl,
                        !.resolvedUrl = IF resolvedUrl # requestedUrl THEN resolvedUrl
                                        ELSE NULL])
    ELSE result


(***************************************************************************)
(* The state of one handler invocation.                                    *)
(***************************************************************************)
ReqIdle ==
    [event |-> NULL, requestedUrl |-> NULL, variants |-> <<>>, deadlineMs |-> 0,
     index |-> 0, bestFallback |-> NULL]

RvIdle ==
    [targetUrl |-> NULL, allowSaveSubmission |-> FALSE, body |-> NULL,
     cdxKnown |-> FALSE, cdxSnapshots |-> <<>>, cdxFor |-> "none",
     primarySnapshot |-> NULL, primarySource |-> "none", processedSnapshots |-> {},
     resolvedPage |-> NULL, lastFetchError |-> NULL, cdxIdx |-> 0, after |-> "none",
     attempt |-> NULL]

SnIdle ==
    [entry |-> NULL, source |-> "none", archiveUrl |-> NULL, timestamp |-> NULL,
     variants |-> <<>>, index |-> 0, bestExtraction |-> NULL, lastError |-> NULL,
     body |-> NULL]

\* what the properties need to remember of a run
HistIdle ==
    [callsIssued |-> FALSE,       \* an outbound call was issued
     lateIssue |-> FALSE,         \* a call was issued with deadline - now <= reserve
     earlyThrow |-> FALSE,        \* DEADLINE_EXCEEDED was thrown with deadline - now > reserve
     deadlineErrors |-> FALSE,    \* fetchWithDeadline threw DEADLINE_EXCEEDED
     timeouts |-> FALSE,          \* a fetch was aborted (FETCH_TIMEOUT)
     saveRequests |-> 0,          \* requests to the save endpoint
     saveIndex |-> -1,            \* the variant index of the last one
     saveLowBudget |-> FALSE,     \* one was issued with deadline - now <= 4500
     saveAfterLookups |-> TRUE,   \* every save followed two lookups without a capture
     saveResponse |-> NULL,       \* what the save endpoint answered
     saveFailure |-> "none",      \* how the save request threw, if it did
     captureLocated |-> FALSE,    \* some variant of the run located a capture
     outcomes |-> <<>>,           \* the decorated results of the variants attempted
     starts |-> <<>>,             \* the variants resolved: index, URL, and whether
                                  \* deadline - now <= 4000 at the start
     \* of the running URL-variant resolution:
     availNone |-> FALSE,         \* the availability lookup named no capture
     cdxNone |-> FALSE,           \* the historical index gave no capture
     availabilityCapture |-> NULL, \* the timestamp of the capture the availability index named
     cdxCaptures |-> {},          \* the timestamps of the captures the historical index listed
     cdxFirstRow |-> NULL,        \* the timestamp of the first row it listed
     cdxLookups |-> <<>>,         \* the limit of each lookup in the historical index
     firstCall |-> "none",        \* the kind of the first outbound call
     fallbackIndex |-> -1,        \* the variant bestFallback came from
     availabilityCalls |-> 0,     \* the availability lookups issued
     attempts |-> <<>>,           \* the captures attempted: what each names, and the
                                  \* resolved page when the attempt began
     fetches |-> <<>>,            \* the snapshot fetches issued: capture, replay mode, the
                                  \* capture's extraction and the budget at issue, the outcome
     availabilityFailure |-> "none", \* how the availability lookup failed, if it did
     cdxFailure |-> "none",        \* how the last historical-index lookup failed, if it did
     extracted |-> FALSE,         \* a snapshot fetch produced an extraction
     timeoutAfterExtraction |-> FALSE,  \* a snapshot fetch timed out after that
     fetchAfterTimeout |-> FALSE] \* a snapshot fetch was issued after that timeout

NoProbe == [kind |-> "none"]

HandlerIdle ==
    /\ pc = "idle"
    /\ now = 0
    /\ req = ReqIdle
    /\ rv = RvIdle
    /\ sn = SnIdle
    /\ inflight = NULL
    /\ response = NULL
    /\ hist = HistIdle
    /\ twin = NULL

Init ==
    /\ HandlerIdle
    /\ world = AnyWorld
    /\ probe = NoProbe

(***************************************************************************)
(* The deadline-aware fetcher (lines 46-85), at instant t.                 *)
(***************************************************************************)
deadlineRemainingMs(t) == req.deadlineMs - t

\* the time used, not the time left, held against the reserve
isDeadlineExceededByElapsed(t, reserveMs) ==
    t - (req.deadlineMs - HANDLER_DEADLINE_MS) >= reserveMs

isDeadlineExceeded(t, reserveMs) == deadlineRemainingMs(t) <= reserveMs

fetchRemaining(t) == deadlineRemainingMs(t) - DEADLINE_RESERVE_MS

\* remaining <= 0: DEADLINE_EXCEEDED is thrown and no call is issued
fetchWithDeadlineThrowsNoReserve(t) == deadlineRemainingMs(t) <= 0

fetchWithDeadlineThrows(t) == fetchRemaining(t) <= 0

safeTimeoutMs(t, timeoutMs) ==
    Max(MIN_FETCH_TIMEOUT_MS, Min(timeoutMs, fetchRemaining(t)))

\* the call fetchWithDeadline issues at t, and the history of issuing or throwing
IssuedCall(t, kind, timeoutMs) ==
    [kind |-> kind, issuedAt |-> t, timeoutMs |-> safeTimeoutMs(t, timeoutMs)]

HistIssued(h, t) ==
    [h EXCEPT !.callsIssued = TRUE,
              !.lateIssue = @ \/ deadlineRemainingMs(t) <= DEADLINE_RESERVE_MS]

\* the first outbound call of the running URL-variant resolution
HistCall(h, kind) ==
    [h EXCEPT !.firstCall = IF @ = "none" THEN kind ELSE @,
              !.availabilityCalls = IF kind = "availability" THEN @ + 1 ELSE @]

HistThrown(h, t) ==
    [h EXCEPT !.deadlineErrors = TRUE,
              !.earlyThrow = @ \/ deadlineRemainingMs(t) > DEADLINE_RESERVE_MS]

\* a pending fetch that takes lat: aborted at the timeout, or settled after lat
FetchTimedOut(lat) == lat >= inflight.timeoutMs
FetchEndsAt(lat) == now + (IF FetchTimedOut(lat) THEN inflight.timeoutMs ELSE lat)

\* fetchWithDeadline as a whole (lines 55-85), called at instant t with the
\* options given (deadlineMs 0: none) on a call that would take lat and end
\* as upstream: what it throws or returns, and the timeout it set
DeadlineExceededError == [code |-> "DEADLINE_EXCEEDED"]
AbortError == [name |-> "AbortError"]
FetchTimeoutError(safeTimeout) == [code |-> "FETCH_TIMEOUT", after |-> safeTimeout]
FetchOutcome(issued, timeoutMs, thrown, value) ==
    [issued |-> issued, timeoutMs |-> timeoutMs, thrown |-> thrown, value |-> value]

\* a timeout floor of 500 ms, twice the reserve
fetchWithDeadlineFloor500(t, deadlineMs, timeoutMs, reserveMs, lat, upstream) ==
    LET given == deadlineMs # 0
        remaining == IF given THEN deadlineMs - t - reserveMs ELSE 0
        safeTimeout == Max(500, IF given THEN Min(timeoutMs, remaining) ELSE timeoutMs)
    IN  IF given /\ remaining <= 0
        THEN FetchOutcome(FALSE, 0, DeadlineExceededError, NULL)
        ELSE IF lat >= safeTimeout
        THEN FetchOutcome(TRUE, safeTimeout, FetchTimeoutError(safeTimeout), NULL)
        ELSE IF upstream = NetworkError
        THEN FetchOutcome(TRUE, safeTimeout, upstream, NULL)
        ELSE FetchOutcome(TRUE, safeTimeout, NULL, upstream)

\* the abort rethrown as it came
fetchWithDeadlineAbortUnchanged(t, deadlineMs, timeoutMs, reserveMs, lat, upstream) ==
    LET given == deadlineMs # 0
        remaining == IF given THEN deadlineMs - t - reserveMs ELSE 0
        safeTimeout == Max(MIN_FETCH_TIMEOUT_MS,
                           IF given THEN Min(timeoutMs, remaining) ELSE timeoutMs)
    IN  IF given /\ remaining <= 0
        THEN FetchOutcome(FALSE, 0, DeadlineExceededError, NULL)
        ELSE IF lat >= safeTimeout
        THEN FetchOutcome(TRUE, safeTimeout, AbortError, NULL)
        ELSE IF upstream = NetworkError
        THEN FetchOutcome(TRUE, safeTimeout, upstream, NULL)
        ELSE FetchOutcome(TRUE, safeTimeout, NULL, upstream)

fetchWithDeadline(t, deadlineMs, timeoutMs, reserveMs, lat, upstream) ==
    LET given == deadlineMs # 0
        \* without a deadline the remaining time is Infinity
        remaining == IF given THEN deadlineMs - t - reserveMs ELSE 0
        safeTimeout == Max(MIN_FETCH_TIMEOUT_MS,
                           IF given THEN Min(timeoutMs, remaining) ELSE timeoutMs)
    IN  IF given /\ remaining <= 0
        THEN FetchOutcome(FALSE, 0, DeadlineExceededError, NULL)
        ELSE IF lat >= safeTimeout
        THEN FetchOutcome(TRUE, safeTimeout, FetchTimeoutError(safeTimeout), NULL)
        ELSE IF upstream = NetworkError
        THEN FetchOutcome(TRUE, safeTimeout, upstream, NULL)
        ELSE FetchOutcome(TRUE, safeTimeout, NULL, upstream)

FetchError(message, timeout) == [message |-> message, status |-> 0, timeout |-> timeout]
StatusError(status) == [message |-> "status", status |-> status, timeout |-> FALSE]

(***************************************************************************)
(* exports.handler, lines 1691-1710: validation, variants, deadline.       *)
(***************************************************************************)
\* lines 87-97: new URL(input) throws on what is no URL; any other protocol
\* than http: and https: is turned down
isHttpUrlAnyProtocol(rawUrl) == IF rawUrl.parsed # NULL THEN rawUrl.parsed ELSE NULL

isHttpUrl(rawUrl) ==
    IF rawUrl.parsed # NULL /\ rawUrl.parsed.scheme \in {"http", "https"}
    THEN rawUrl.parsed
    ELSE NULL

InvocableEvents == IF twin = NULL THEN EventsNow ELSE {twin.event}

Invoke ==
    /\ pc = "idle"
    /\ \E event \in InvocableEvents :
         LET rawUrl == event.url
             parsed == isHttpUrl(rawUrl)
         IN  IF event.httpMethod # "GET"
             THEN /\ response' = json(405, [EmptyPayload EXCEPT !.error = "Method not allowed"])
                  /\ pc' = "done"
                  /\ req' = [req EXCEPT !.event = event]
             ELSE IF rawUrl.kind \in {"missing", "blank"}
             THEN /\ response' = json(400, [EmptyPayload EXCEPT !.error = "Missing url parameter."])
                  /\ pc' = "done"
                  /\ req' = [req EXCEPT !.event = event]
             ELSE IF parsed = NULL
             THEN /\ response' = json(400, [EmptyPayload EXCEPT
                                     !.error = "Please provide a valid http or https URL."])
                  /\ pc' = "done"
                  /\ req' = [req EXCEPT !.event = event]
             ELSE /\ req' = [event |-> event,
                             requestedUrl |-> parsed,
                             variants |-> buildTargetUrlVariants(parsed),
                             deadlineMs |-> now + HANDLER_DEADLINE_MS,
                             index |-> 0,
                             bestFallback |-> NULL]
                  /\ pc' = "variant"
                  /\ response' = response
    /\ UNCHANGED <<now, rv, sn, inflight, hist, world, twin, probe>>

\* a further variant held against the reserve of a fetch only
VariantLoopEndsAtReserve ==
    \/ req.index >= Len(req.variants)
    \/ (req.index > 0 /\ isDeadlineExceeded(now, DEADLINE_RESERVE_MS))

\* the for loop of lines 1712-1715 is over
VariantLoopEnds ==
    \/ req.index >= Len(req.variants)
    \/ (req.index > 0 /\ isDeadlineExceeded(now, MIN_TIME_FOR_EXTRA_SNAPSHOT_MS))

\* lines 1732-1735
HandlerFinish ==
    /\ pc = "variant"
    /\ VariantLoopEnds
    /\ response' = IF req.bestFallback = NULL
                   THEN json(502, [EmptyPayload EXCEPT
                                     !.error = "Wayback availability check failed."])
                   ELSE json(req.bestFallback.result.statusCode,
                             req.bestFallback.result.payload)
    /\ pc' = "done"
    /\ UNCHANGED <<now, req, rv, sn, inflight, hist, world, twin, probe>>

\* allowSaveSubmission: index === 0 (line 1718)
allowSaveSubmissionAlways(index) == TRUE

allowSaveSubmissionFor(index) == index = 0

(***************************************************************************)
(* resolveArchiveForTarget, lines 1441-1465: the availability lookup.      *)
(***************************************************************************)
ResolveStart ==
    /\ pc = "variant"
    /\ ~VariantLoopEnds
    /\ LET targetUrl == req.variants[req.index + 1]
           rv0 == [RvIdle EXCEPT !.targetUrl = targetUrl,
                                 !.allowSaveSubmission = allowSaveSubmissionFor(req.index)]
           h0 == [hist EXCEPT !.availNone = FALSE, !.cdxNone = FALSE,
                              !.availabilityCapture = NULL, !.cdxCaptures = {},
                              !.cdxFirstRow = NULL, !.cdxLookups = <<>>,
                              !.firstCall = "none", !.availabilityCalls = 0,
                              !.availabilityFailure = "none", !.cdxFailure = "none",
                              !.attempts = <<>>, !.fetches = <<>>, !.extracted = FALSE,
                              !.timeoutAfterExtraction = FALSE,
                              !.starts = Append(@, [index |-> req.index,
                                                    targetUrl |-> targetUrl,
                                                    lowBudget |->
                                                        deadlineRemainingMs(now)
                                                          <= MIN_TIME_FOR_EXTRA_SNAPSHOT_MS])]
       IN  IF isDeadlineExceeded(now, DEADLINE_RESERVE_MS)
           THEN /\ rv' = [rv0 EXCEPT !.attempt = ErrorResult(502,
                            "Archive lookup timed out before request could complete.")]
                /\ pc' = "variant_done"
                /\ inflight' = inflight
                /\ hist' = h0
           ELSE IF fetchWithDeadlineThrows(now)
           THEN /\ rv' = [rv0 EXCEPT !.attempt = ErrorResult(502,
                            "Wayback availability check timed out.")]
                /\ pc' = "variant_done"
                /\ inflight' = inflight
                /\ hist' = [HistThrown(h0, now) EXCEPT !.availabilityFailure = "deadline"]
           ELSE /\ rv' = rv0
                /\ pc' = "avail_fetch"
                /\ inflight' = IssuedCall(now, "availability", API_FETCH_TIMEOUT_MS)
                /\ hist' = HistCall(HistIssued(h0, now), "availability")
    /\ sn' = SnIdle
    /\ UNCHANGED <<now, req, response, world, twin, probe>>

\* how a lookup's fetch failed when it took lat and the upstream answered res
LookupFailure(lat, res) ==
    IF FetchTimedOut(lat) THEN "timeout"
    ELSE IF res = NetworkError THEN "network"
    ELSE IF ~ResponseOk(res) THEN "status"
    ELSE "none"

\* a non-2xx answer taken for an answer without a capture
availabilityRejectsNever(res) == FALSE

\* line 1466: `if (!availabilityRes.ok)`
availabilityRejects(res) == ~ResponseOk(res)

\* lines 1456-1483: the fetch settles
AvailFetchDone ==
    /\ pc = "avail_fetch"
    /\ \E lat \in FetchLatenciesNow, res \in AvailabilityUpstream(rv.targetUrl) :
         /\ now' = FetchEndsAt(lat)
         /\ hist' = [hist EXCEPT !.timeouts = @ \/ FetchTimedOut(lat),
                                  !.availabilityFailure = LookupFailure(lat, res)]
         /\ IF FetchTimedOut(lat)
            THEN /\ rv' = [rv EXCEPT !.attempt = ErrorResult(502,
                             "Wayback availability check timed out.")]
                 /\ pc' = "variant_done"
            ELSE IF res = NetworkError \/ availabilityRejects(res)
            THEN /\ rv' = [rv EXCEPT !.attempt = ErrorResult(502,
                             "Wayback availability check failed.")]
                 /\ pc' = "variant_done"
            ELSE /\ rv' = [rv EXCEPT !.body = res.body]
                 /\ pc' = "avail_body"
    /\ inflight' = NULL
    /\ UNCHANGED <<req, sn, response, world, twin, probe>>

\* line 1055: the limit lookupCdxSnapshots asks with; 0 stands for a limit that
\* is zero or no number
safeLimit(limit) == Max(1, Min(IF limit = 0 THEN CDX_DEFAULT_LIMIT ELSE limit, 8))

\* lookupCdxSnapshots up to its fetch (lines 1054-1070), entered at t from state r
\* of resolveArchiveForTarget; purpose names the caller (line 1498 or line 1616)
LookupCdxStart(t, r, h, purpose) ==
    LET looked == [h EXCEPT !.cdxLookups = Append(@, safeLimit(CDX_DEFAULT_LIMIT))]
    IN  IF fetchWithDeadlineThrows(t)
        THEN /\ rv' = [r EXCEPT !.cdxFor = purpose, !.cdxKnown = TRUE, !.cdxSnapshots = <<>>]
             /\ pc' = "cdx_result"
             /\ inflight' = NULL
             /\ hist' = [HistThrown(looked, t) EXCEPT !.cdxFailure = "deadline"]
        ELSE /\ rv' = [r EXCEPT !.cdxFor = purpose]
             /\ pc' = "cdx_fetch"
             /\ inflight' = IssuedCall(t, "cdx", API_FETCH_TIMEOUT_MS)
             /\ hist' = HistCall(HistIssued(looked, t), "cdx")

\* lines 1472-1503: the availability body is read and the primary chosen
AvailBody ==
    /\ pc = "avail_body"
    /\ \E lat \in BodyLatenciesNow :
         /\ now' = now + lat
         /\ IF rv.body.kind = "unparsable"
            THEN /\ rv' = [rv EXCEPT !.body = NULL,
                                     !.attempt = ErrorResult(502,
                                        "Wayback availability check failed.")]
                 /\ pc' = "variant_done"
                 /\ inflight' = NULL
                 /\ hist' = [hist EXCEPT !.availabilityFailure = "body"]
            ELSE IF rv.body.kind = "closest"
            THEN /\ rv' = [rv EXCEPT !.body = NULL,
                                     !.primarySnapshot = rv.body.closest,
                                     !.primarySource = "availability"]
                 /\ pc' = "attempt_primary"
                 /\ inflight' = NULL
                 /\ hist' = [hist EXCEPT !.captureLocated = TRUE,
                                          !.availabilityCapture =
                                              extractTimestamp(rv.body.closest.url,
                                                               rv.body.closest.timestamp)]
            ELSE LookupCdxStart(now + lat, [rv EXCEPT !.body = NULL],
                                [hist EXCEPT !.availNone = TRUE], "primary")
    /\ UNCHANGED <<req, sn, response, world, twin, probe>>

\* lines 1071-1096: the historical index answers, or the lookup fails to []
CdxFetchDone ==
    /\ pc = "cdx_fetch"
    /\ \E lat \in FetchLatenciesNow, res \in CdxUpstream(rv.targetUrl) :
         /\ now' = FetchEndsAt(lat)
         /\ IF FetchTimedOut(lat) \/ res = NetworkError \/ ~ResponseOk(res)
            THEN /\ rv' = [rv EXCEPT !.cdxKnown = TRUE, !.cdxSnapshots = <<>>]
                 /\ pc' = "cdx_result"
                 /\ hist' = [hist EXCEPT !.timeouts = @ \/ FetchTimedOut(lat),
                                          !.cdxFailure = LookupFailure(lat, res)]
            ELSE /\ rv' = [rv EXCEPT !.body = res.body]
                 /\ pc' = "cdx_body"
                 /\ hist' = hist
    /\ inflight' = NULL
    /\ UNCHANGED <<req, sn, response, world, twin, probe>>

\* lines 1078-1093: rows to snapshot entries, without duplicate keys
RECURSIVE CdxSnapshotsOf(_, _, _)
CdxSnapshotsOf(rows, targetUrl, snapshots) ==
    IF rows = <<>> THEN snapshots
    ELSE LET row == Head(rows)
             original == targetUrl
             seen == {<<snapshots[i].timestamp, snapshots[i].original>>
                        : i \in 1..Len(snapshots)}
         IN  CdxSnapshotsOf(Tail(rows), targetUrl,
                 IF <<row.timestamp, original>> \in seen THEN snapshots
                 ELSE Append(snapshots,
                             SnapshotEntry(ArchiveUrlOf(original, row.timestamp, ""),
                                           row.timestamp, original)))

CdxBody ==
    /\ pc = "cdx_body"
    /\ \E lat \in BodyLatenciesNow :
         /\ now' = now + lat
         /\ rv' = [rv EXCEPT !.body = NULL,
                             !.cdxKnown = TRUE,
                             !.cdxSnapshots =
                                 IF rv.body.kind = "rows"
                                 THEN CdxSnapshotsOf(rv.body.rows, rv.targetUrl, <<>>)
                                 ELSE <<>>]
         /\ hist' = [hist EXCEPT !.cdxCaptures =
                                 IF rv.body.kind = "rows"
                                 THEN {rv.body.rows[i].timestamp : i \in 1..Len(rv.body.rows)}
                                 ELSE {},
                                  !.cdxFirstRow =
                                 IF rv.body.kind = "rows" /\ rv.body.rows # <<>>
                                 THEN rv.body.rows[1].timestamp
                                 ELSE NULL,
                                  !.cdxFailure =
                                 IF rv.body.kind = "rows" THEN "none" ELSE "body"]
         /\ pc' = "cdx_result"
    /\ UNCHANGED <<req, sn, inflight, response, world, twin, probe>>

\* lines 1499-1502 (the lookup for the primary) and line 1618 (the extra captures)
CdxResult ==
    /\ pc = "cdx_result"
    /\ IF rv.cdxFor = "primary"
       THEN IF Len(rv.cdxSnapshots) > 0
            THEN /\ rv' = [rv EXCEPT !.primarySnapshot = rv.cdxSnapshots[1],
                                     !.primarySource = "cdx"]
                 /\ pc' = "attempt_primary"
                 /\ hist' = [hist EXCEPT !.captureLocated = TRUE]
            ELSE /\ rv' = rv
                 /\ pc' = "no_primary"
                 /\ hist' = [hist EXCEPT !.cdxNone = TRUE]
       ELSE /\ rv' = [rv EXCEPT !.cdxIdx = 1]
            /\ pc' = "extra_loop"
            /\ hist' = hist
    /\ UNCHANGED <<now, req, sn, inflight, response, world, twin, probe>>


(***************************************************************************)
(* Lines 1505-1580: no capture; the save request of variant 0.             *)
(***************************************************************************)
ARCHIVE_ORIGIN == "https://web.archive.org"

SubmittedResult(targetUrl, archiveUrl) ==
    Result(200, [EmptyPayload EXCEPT !.status = "submitted",
                                     !.originalUrl = targetUrl,
                                     !.archiveUrl = archiveUrl])

\* a save request that throws is taken for an upstream failure
SaveThrownIsError(targetUrl) == ErrorResult(502, "Wayback save request failed.")

\* lines 1553-1555 and 1569-1577: the catch leaves archiveUrl and submission null
SaveThrown(targetUrl) == SubmittedResult(targetUrl, NULL)

NoPrimary ==
    /\ pc = "no_primary"
    /\ IF ~rv.allowSaveSubmission
       THEN /\ rv' = [rv EXCEPT !.attempt = ErrorResult(404,
                        "No archived snapshot found for this URL variant.")]
            /\ pc' = "variant_done"
            /\ inflight' = NULL
            /\ hist' = hist
       ELSE IF isDeadlineExceeded(now, API_FETCH_TIMEOUT_MS)
       THEN /\ rv' = [rv EXCEPT !.attempt = ErrorResult(502,
                        "Wayback lookup timed out before save submission.")]
            /\ pc' = "variant_done"
            /\ inflight' = NULL
            /\ hist' = hist
       ELSE IF fetchWithDeadlineThrows(now)
       THEN /\ rv' = [rv EXCEPT !.attempt = SaveThrown(rv.targetUrl)]
            /\ pc' = "variant_done"
            /\ inflight' = NULL
            /\ hist' = [HistThrown(hist, now) EXCEPT !.saveFailure = "deadline"]
       ELSE /\ rv' = rv
            /\ pc' = "save_fetch"
            /\ inflight' = IssuedCall(now, "save", API_FETCH_TIMEOUT_MS)
            /\ hist' = [HistCall(HistIssued(hist, now), "save") EXCEPT
                          !.saveRequests = @ + 1,
                          !.saveIndex = req.index,
                          !.saveLowBudget =
                              @ \/ deadlineRemainingMs(now) <= API_FETCH_TIMEOUT_MS,
                          !.saveAfterLookups = @ /\ hist.availNone /\ hist.cdxNone]
    /\ UNCHANGED <<now, req, sn, response, world, twin, probe>>

\* lines 1522-1556: a save request that throws is ignored
SaveFetchDone ==
    /\ pc = "save_fetch"
    /\ \E lat \in FetchLatenciesNow, res \in SaveUpstream :
         /\ now' = FetchEndsAt(lat)
         /\ IF FetchTimedOut(lat) \/ res = NetworkError
            THEN /\ rv' = [rv EXCEPT !.attempt = SaveThrown(rv.targetUrl)]
                 /\ pc' = "variant_done"
                 /\ hist' = [hist EXCEPT !.timeouts = @ \/ FetchTimedOut(lat),
                                          !.saveFailure = IF FetchTimedOut(lat) THEN "timeout"
                                                          ELSE "network"]
            ELSE /\ rv' = [rv EXCEPT !.body = res]
                 /\ pc' = "save_body"
                 /\ hist' = [hist EXCEPT !.saveResponse = res]
    /\ inflight' = NULL
    /\ UNCHANGED <<req, sn, response, world, twin, probe>>

shouldTreatAsBlockedByDetailOnly(saveRes, detailText, classification) ==
    /\ ~detailText.empty
    /\ (classification.category # "unknown" \/ "archiving" \in detailText.phrases)

shouldTreatAsBlocked(saveRes, detailText, classification) ==
    \/ ~ResponseOk(saveRes)
    \/ /\ ~detailText.empty
       /\ (classification.category # "unknown" \/ "archiving" \in detailText.phrases)

\* lines 1534-1579, once the body of the save response is read
SaveOutcomeBlockedOnAnyDetail(targetUrl, saveRes) ==
    LET detailText == normalizeSaveDetail(saveRes.body)
        classification == classifySaveFailure(saveRes.status, detailText)
        archiveUrl == IF saveRes.contentLocation # ""
                      THEN [origin |-> ARCHIVE_ORIGIN, path |-> saveRes.contentLocation]
                      ELSE NULL
    IN  IF ~ResponseOk(saveRes) \/ ~detailText.empty
        THEN Result(200, [EmptyPayload EXCEPT
                 !.status = "blocked",
                 !.originalUrl = targetUrl,
                 !.archiveUrl = archiveUrl,
                 !.submission = [statusCode |-> saveRes.status,
                                 category |-> classification.category,
                                 label |-> classification.label,
                                 detail |-> detailText]])
        ELSE SubmittedResult(targetUrl, archiveUrl)

SaveOutcome(targetUrl, saveRes) ==
    LET detailText == normalizeSaveDetail(saveRes.body)
        classification == classifySaveFailure(saveRes.status, detailText)
        archiveUrl == IF saveRes.contentLocation # ""
                      THEN [origin |-> ARCHIVE_ORIGIN, path |-> saveRes.contentLocation]
                      ELSE NULL
    IN  IF shouldTreatAsBlocked(saveRes, detailText, classification)
        THEN Result(200, [EmptyPayload EXCEPT
                 !.status = "blocked",
                 !.originalUrl = targetUrl,
                 !.archiveUrl = archiveUrl,
                 !.submission = [statusCode |-> saveRes.status,
                                 category |-> classification.category,
                                 label |-> classification.label,
                                 detail |-> detailText]])
        ELSE SubmittedResult(targetUrl, archiveUrl)

SaveBody ==
    /\ pc = "save_body"
    /\ \E lat \in BodyLatenciesNow :
         /\ now' = now + lat
         /\ rv' = [rv EXCEPT !.body = NULL, !.attempt = SaveOutcome(rv.targetUrl, rv.body)]
         /\ pc' = "variant_done"
    /\ UNCHANGED <<req, sn, inflight, response, hist, world, twin, probe>>

(***************************************************************************)
(* Lines 1582-1630: the snapshot attempts.                                 *)
(***************************************************************************)
\* line 1608
AttemptPrimary ==
    /\ pc = "attempt_primary"
    /\ sn' = [SnIdle EXCEPT !.entry = rv.primarySnapshot, !.source = rv.primarySource]
    /\ rv' = [rv EXCEPT !.after = "extra"]
    /\ pc' = "attempt"
    /\ UNCHANGED <<now, req, inflight, response, hist, world, twin, probe>>

\* the capture an entry names: its timestamp and the URL captured
CaptureOf(entry) == <<extractTimestamp(entry.url, entry.timestamp), entry.original>>

\* the history of a snapshot fetch issued at t, and of its outcome
HistFetchIssued(h, t) ==
    [h EXCEPT !.fetches =
        Append(@, [capture |-> CaptureOf(sn.entry),
                   variant |-> sn.variants[sn.index + 1].variant,
                   remainingMs |-> deadlineRemainingMs(t),
                   done |-> FALSE,
                   extraction |-> NULL])]

HistFetchDone(h, extraction) ==
    [h EXCEPT !.fetches[Len(h.fetches)] = [@ EXCEPT !.done = TRUE, !.extraction = extraction]]

\* attemptSnapshot up to the call of resolveSnapshotCandidate (lines 1587-1600),
\* and the start of resolveBestExtractionForSnapshot (lines 1326-1328, 1010-1012)
AttemptSnapshot ==
    /\ pc = "attempt"
    /\ LET key == snapshotKey(sn.entry, rv.targetUrl)
           archiveUrl == sn.entry.url
           timestamp == extractTimestamp(archiveUrl, sn.entry.timestamp)
       IN  IF \/ isDeadlineExceeded(now, MIN_TIME_FOR_EXTRA_SNAPSHOT_MS)
              \/ key \in rv.processedSnapshots
              \/ Cardinality(rv.processedSnapshots) >= MAX_SNAPSHOT_ATTEMPTS
           THEN /\ pc' = rv.after
                /\ rv' = rv
                /\ sn' = sn
                /\ hist' = hist
           ELSE /\ rv' = [rv EXCEPT !.processedSnapshots = @ \cup {key}]
                /\ hist' = [hist EXCEPT !.attempts =
                               Append(@, [capture |-> CaptureOf(sn.entry),
                                          resolvedBefore |-> rv.resolvedPage])]
                /\ sn' = [sn EXCEPT
                            !.archiveUrl = archiveUrl,
                            !.timestamp = timestamp,
                            !.variants = buildSnapshotVariantCandidates(
                                             archiveUrl, rv.targetUrl, timestamp),
                            !.index = 0,
                            !.bestExtraction = NULL,
                            !.lastError = NULL]
                /\ pc' = "snap_loop"
    /\ UNCHANGED <<now, req, inflight, response, world, twin, probe>>

\* the loop is left without a look at the budget
SnapshotLoopEndsNoBudgetCheck ==
    \/ sn.index >= Len(sn.variants)
    \/ (sn.index > 0 /\ ~shouldTryAlternateVariant(sn.bestExtraction))

\* the loop of resolveBestExtractionForSnapshot is left (lines 1014-1020)
SnapshotLoopEnds ==
    \/ sn.index >= Len(sn.variants)
    \/ (sn.index > 0 /\ ~shouldTryAlternateVariant(sn.bestExtraction))
    \/ isDeadlineExceeded(now, MIN_TIME_FOR_EXTRA_SNAPSHOT_MS)

\* lines 1030-1037: the loop takes the result of fetchAndExtractVariant
SnapshotResult(extraction, error, h) ==
    /\ IF error # NULL
       THEN IF error.timeout /\ sn.bestExtraction # NULL
            THEN /\ sn' = [sn EXCEPT !.body = NULL, !.lastError = error]
                 /\ pc' = "snap_exit"
            ELSE /\ sn' = [sn EXCEPT !.body = NULL, !.lastError = error,
                                     !.index = @ + 1]
                 /\ pc' = "snap_loop"
       ELSE /\ sn' = [sn EXCEPT !.body = NULL,
                                !.bestExtraction =
                                    chooseBestExtraction(sn.bestExtraction, extraction),
                                !.index = @ + 1]
            /\ pc' = "snap_loop"
    /\ hist' = [h EXCEPT
                  !.extracted = @ \/ extraction # NULL,
                  !.timeoutAfterExtraction =
                      @ \/ (error # NULL /\ error.timeout /\ h.extracted)]

\* lines 1014-1029 and fetchAndExtractVariant up to its fetch (lines 939-963)
SnapshotLoop ==
    /\ pc = "snap_loop"
    /\ ~SnapshotLoopEnds
    /\ IF isDeadlineExceeded(now, DEADLINE_RESERVE_MS)
       THEN /\ SnapshotResult(NULL,
                   FetchError("Extraction deadline exceeded before snapshot fetch.", TRUE),
                   hist)
            /\ inflight' = NULL
       ELSE IF fetchWithDeadlineThrows(now)
       THEN /\ SnapshotResult(NULL, FetchError("Operation deadline exceeded.", TRUE),
                              HistThrown(hist, now))
            /\ inflight' = NULL
       ELSE /\ inflight' = IssuedCall(now, "snapshot", SNAPSHOT_FETCH_TIMEOUT_MS)
            /\ hist' = [HistFetchIssued(HistCall(HistIssued(hist, now), "snapshot"), now) EXCEPT
                          !.fetchAfterTimeout = @ \/ hist.timeoutAfterExtraction]
            /\ sn' = sn
            /\ pc' = "snap_fetch"
    /\ UNCHANGED <<now, req, rv, response, world, twin, probe>>

\* lines 951-973 and 992-1001
SnapFetchDone ==
    /\ pc = "snap_fetch"
    /\ \E lat \in FetchLatenciesNow, res \in SnapshotUpstream(sn.variants[sn.index + 1].url) :
         /\ now' = FetchEndsAt(lat)
         /\ IF FetchTimedOut(lat)
            THEN SnapshotResult(NULL, FetchError("Fetch timed out.", TRUE),
                                [HistFetchDone(hist, NULL) EXCEPT !.timeouts = TRUE])
            ELSE IF res = NetworkError
            THEN SnapshotResult(NULL, FetchError("fetch failed", FALSE),
                                HistFetchDone(hist, NULL))
            ELSE IF ~ResponseOk(res)
            THEN SnapshotResult(NULL, StatusError(res.status), HistFetchDone(hist, NULL))
            ELSE /\ sn' = [sn EXCEPT !.body = res.body]
                 /\ pc' = "snap_body"
                 /\ hist' = hist
    /\ inflight' = NULL
    /\ UNCHANGED <<req, rv, response, world, twin, probe>>

\* lines 974-991: the HTML is read and extracted
SnapBody ==
    /\ pc = "snap_body"
    /\ \E lat \in BodyLatenciesNow :
         /\ now' = now + lat
         /\ LET extraction == extractFromHtmlCandidate(
                                  sn.body, sn.variants[sn.index + 1].variant)
            IN  IF extraction = NULL
                THEN SnapshotResult(NULL,
                         FetchError("Could not extract readable content from snapshot HTML.",
                                    FALSE),
                         HistFetchDone(hist, NULL))
                ELSE SnapshotResult(extraction, NULL, HistFetchDone(hist, extraction))
    /\ UNCHANGED <<req, rv, inflight, response, world, twin, probe>>

\* lines 1040-1051, resolveSnapshotCandidate's return (1335-1343) and
\* attemptSnapshot's end (1601-1605)
SnapExit ==
    /\ \/ pc = "snap_exit"
       \/ (pc = "snap_loop" /\ SnapshotLoopEnds)
    /\ LET error == IF sn.lastError = NULL /\ isDeadlineExceeded(now, DEADLINE_RESERVE_MS)
                    THEN FetchError(
                             "Extraction timed out before any snapshot variant completed.",
                             TRUE)
                    ELSE sn.lastError
           candidate == [extraction |-> sn.bestExtraction,
                         archiveUrl |-> sn.archiveUrl,
                         archiveTimestamp |-> sn.timestamp,
                         archiveSource |-> sn.source]
       IN  IF sn.bestExtraction # NULL
           THEN rv' = [rv EXCEPT !.resolvedPage = chooseBestResolvedPage(@, candidate)]
           ELSE IF error # NULL
           THEN rv' = [rv EXCEPT !.lastFetchError = error]
           ELSE rv' = rv
    /\ pc' = rv.after
    /\ UNCHANGED <<now, req, sn, inflight, response, hist, world, twin, probe>>

\* the historical index asked again for the extra captures
cdxSnapshotsUnsetAlways(r) == TRUE

\* line 1615: `if (!cdxSnapshots)`; a list, even an empty one, is kept
cdxSnapshotsUnset(r) == ~r.cdxKnown

\* lines 1610-1617
Extra ==
    /\ pc = "extra"
    /\ IF /\ (rv.resolvedPage = NULL \/ shouldTryAdditionalSnapshots(rv.resolvedPage))
          /\ Cardinality(rv.processedSnapshots) < MAX_SNAPSHOT_ATTEMPTS
          /\ ~isDeadlineExceeded(now, MIN_TIME_FOR_EXTRA_SNAPSHOT_MS)
       THEN IF cdxSnapshotsUnset(rv)
            THEN LookupCdxStart(now, rv, hist, "extra")
            ELSE /\ rv' = [rv EXCEPT !.cdxIdx = 1]
                 /\ pc' = "extra_loop"
                 /\ inflight' = NULL
                 /\ hist' = hist
       ELSE /\ rv' = rv
            /\ pc' = "finish_variant"
            /\ inflight' = NULL
            /\ hist' = hist
    /\ UNCHANGED <<now, req, sn, response, world, twin, probe>>

\* lines 1618-1625
ExtraLoop ==
    /\ pc = "extra_loop"
    /\ IF \/ rv.cdxIdx > Len(rv.cdxSnapshots)
          \/ Cardinality(rv.processedSnapshots) >= MAX_SNAPSHOT_ATTEMPTS
          \/ isDeadlineExceeded(now, MIN_TIME_FOR_EXTRA_SNAPSHOT_MS)
       THEN /\ pc' = "finish_variant"
            /\ rv' = rv
            /\ sn' = sn
       ELSE /\ sn' = [SnIdle EXCEPT !.entry = rv.cdxSnapshots[rv.cdxIdx], !.source = "cdx"]
            /\ rv' = [rv EXCEPT !.after = "extra_next"]
            /\ pc' = "attempt"
    /\ UNCHANGED <<now, req, inflight, response, hist, world, twin, probe>>

\* lines 1626-1628
ExtraNext ==
    /\ pc = "extra_next"
    /\ IF rv.resolvedPage # NULL /\ ~shouldTryAdditionalSnapshots(rv.resolvedPage)
       THEN /\ pc' = "finish_variant"
            /\ rv' = rv
       ELSE /\ pc' = "extra_loop"
            /\ rv' = [rv EXCEPT !.cdxIdx = @ + 1]
    /\ UNCHANGED <<now, req, sn, inflight, response, hist, world, twin, probe>>

(***************************************************************************)
(* Lines 1632-1688: the result of one URL variant.                         *)
(***************************************************************************)
\* the source of the primary capture reported for whichever capture was extracted
VariantOutcomePrimarySource(r) ==
    IF r.resolvedPage = NULL
    THEN IF r.primarySnapshot # NULL
         THEN Result(200, [EmptyPayload EXCEPT
                  !.status = "archived_link_only",
                  !.originalUrl = r.targetUrl,
                  !.archiveUrl = r.primarySnapshot.url,
                  !.archiveSource = r.primarySource,
                  !.archiveTimestamp =
                      extractTimestamp(r.primarySnapshot.url, r.primarySnapshot.timestamp),
                  !.details = r.lastFetchError])
         ELSE IF r.lastFetchError # NULL
         THEN Result(502, [EmptyPayload EXCEPT !.error = "Failed to fetch the archived page.",
                                               !.details = r.lastFetchError])
         ELSE ErrorResult(500, "Could not extract readable content from archived snapshots.")
    ELSE Result(200, [EmptyPayload EXCEPT
             !.status = "archived",
             !.originalUrl = r.targetUrl,
             !.archiveUrl = r.resolvedPage.archiveUrl,
             !.archiveSource = r.primarySource,
             !.archiveTimestamp = r.resolvedPage.archiveTimestamp,
             !.extraction = r.resolvedPage.extraction])

VariantOutcomeErrorFirst(r) ==
    IF r.resolvedPage = NULL
    THEN IF r.lastFetchError # NULL
         THEN Result(502, [EmptyPayload EXCEPT !.error = "Failed to fetch the archived page.",
                                               !.details = r.lastFetchError])
         ELSE IF r.primarySnapshot # NULL
         THEN Result(200, [EmptyPayload EXCEPT
                  !.status = "archived_link_only",
                  !.originalUrl = r.targetUrl,
                  !.archiveUrl = r.primarySnapshot.url,
                  !.archiveSource = r.primarySource,
                  !.archiveTimestamp =
                      extractTimestamp(r.primarySnapshot.url, r.primarySnapshot.timestamp),
                  !.details = r.lastFetchError])
         ELSE ErrorResult(500, "Could not extract readable content from archived snapshots.")
    ELSE Result(200, [EmptyPayload EXCEPT
             !.status = "archived",
             !.originalUrl = r.targetUrl,
             !.archiveUrl = r.resolvedPage.archiveUrl,
             !.archiveSource = r.resolvedPage.archiveSource,
             !.archiveTimestamp = r.resolvedPage.archiveTimestamp,
             !.extraction = r.resolvedPage.extraction])

VariantOutcome(r) ==
    IF r.resolvedPage = NULL
    THEN IF r.primarySnapshot # NULL
         THEN Result(200, [EmptyPayload EXCEPT
                  !.status = "archived_link_only",
                  !.originalUrl = r.targetUrl,
                  !.archiveUrl = r.primarySnapshot.url,
                  !.archiveSource = r.primarySource,
                  !.archiveTimestamp =
                      extractTimestamp(r.primarySnapshot.url, r.primarySnapshot.timestamp),
                  !.details = r.lastFetchError])
         ELSE IF r.lastFetchError # NULL
         THEN Result(502, [EmptyPayload EXCEPT !.error = "Failed to fetch the archived page.",
                                               !.details = r.lastFetchError])
         ELSE ErrorResult(500, "Could not extract readable content from archived snapshots.")
    ELSE Result(200, [EmptyPayload EXCEPT
             !.status = "archived",
             !.originalUrl = r.targetUrl,
             !.archiveUrl = r.resolvedPage.archiveUrl,
             !.archiveSource = r.resolvedPage.archiveSource,
             !.archiveTimestamp = r.resolvedPage.archiveTimestamp,
             !.extraction = r.resolvedPage.extraction])

FinishVariant ==
    /\ pc = "finish_variant"
    /\ rv' = [rv EXCEPT !.attempt = VariantOutcome(rv)]
    /\ pc' = "variant_done"
    /\ UNCHANGED <<now, req, sn, inflight, response, hist, world, twin, probe>>

\* lines 1721-1730
VariantDone ==
    /\ pc = "variant_done"
    /\ LET decorated == decorateVariantResponse(rv.attempt, req.requestedUrl, rv.targetUrl)
           score == scoreFallbackResult(decorated.statusCode, decorated.payload, req.index)
           kept == ~(decorated.statusCode = 200 /\ decorated.payload.status = "archived")
                   /\ (req.bestFallback = NULL \/ score > req.bestFallback.score)
       IN  /\ hist' = [hist EXCEPT !.outcomes = Append(@, decorated),
                                    !.fallbackIndex = IF kept THEN req.index ELSE @]
           /\ IF decorated.statusCode = 200 /\ decorated.payload.status = "archived"
              THEN /\ response' = json(200, decorated.payload)
                   /\ pc' = "done"
                   /\ req' = req
              ELSE /\ response' = response
                   /\ pc' = "variant"
                   /\ req' = [req EXCEPT
                                !.index = @ + 1,
                                !.bestFallback =
                                    IF req.bestFallback = NULL \/ score > req.bestFallback.score
                                    THEN [score |-> score, result |-> decorated]
                                    ELSE @]
    /\ UNCHANGED <<now, rv, sn, inflight, world, twin, probe>>

HandlerNext ==
    \/ Invoke
    \/ HandlerFinish
    \/ ResolveStart
    \/ AvailFetchDone
    \/ AvailBody
    \/ CdxFetchDone
    \/ CdxBody
    \/ CdxResult
    \/ NoPrimary
    \/ SaveFetchDone
    \/ SaveBody
    \/ AttemptPrimary
    \/ AttemptSnapshot
    \/ SnapshotLoop
    \/ SnapFetchDone
    \/ SnapBody
    \/ SnapExit
    \/ Extra
    \/ ExtraLoop
    \/ ExtraNext
    \/ FinishVariant
    \/ VariantDone

Next == HandlerNext

Spec == Init /\ [][Next]_vars

(***************************************************************************)
(* Runs over several URL variants.                                         *)
(***************************************************************************)
InitVariants ==
    /\ HandlerIdle
    /\ world = CoarseWorld
    /\ probe = NoProbe

SpecVariants == InitVariants /\ [][Next]_vars

InitLive ==
    /\ HandlerIdle
    /\ world = LiveWorld
    /\ probe = NoProbe

\* every pending fetch settles or is aborted, every body read ends, and the
\* handler's own steps are taken
SpecLive == InitLive /\ [][Next]_vars /\ WF_vars(Next)


(***************************************************************************)
(* Two runs for the same request against the same answers: every requested *)
(* URL has one answer, fixed at the start; only the latencies are free.    *)
(***************************************************************************)
FixedAvailabilityResponses ==
    { HttpResponse(200, [kind |-> "empty"]),
      HttpResponse(200, [kind |-> "closest",
                         closest |-> SnapshotEntry(ArchiveUrlOf(LocalUrl, Timestamp(1), ""),
                                                   Timestamp(1), LocalUrl)]) }
FixedCdxResponses ==
    { HttpResponse(200, [kind |-> "rows", rows |-> <<>>]),
      HttpResponse(200, [kind |-> "rows", rows |-> <<[timestamp |-> Timestamp(MaxTimestamp)]>>]) }
FixedSnapshotUrls == {1, MaxTimestamp} \X {"", "id"}
FixedSnapshotResponses == {HttpResponse(200, PoorDoc), HttpResponse(200, GoodDoc)}
FixedSaveResponses ==
    { SaveResponse(200, ContentLocation, SaveText(TRUE, {})),
      SaveResponse(403, "", SaveText(TRUE, {})) }
FixedWorlds ==
    [profile : {"fixed"},
     availability : [{LocalUrl} -> FixedAvailabilityResponses],
     cdx : [{LocalUrl} -> FixedCdxResponses],
     snapshot : [FixedSnapshotUrls -> FixedSnapshotResponses],
     save : FixedSaveResponses]

InitTwin ==
    /\ HandlerIdle
    /\ world \in FixedWorlds
    /\ probe = NoProbe

\* the run went without a timed-out call and ended with more than 4500 ms
\* of its deadline left
RunUndisturbed ==
    /\ ~hist.timeouts
    /\ req.deadlineMs - now > API_FETCH_TIMEOUT_MS

\* the first run is over: remember its response and invoke the handler again
Restart ==
    /\ pc = "done"
    /\ twin = NULL
    /\ twin' = [event |-> req.event, response |-> response, undisturbed |-> RunUndisturbed]
    /\ pc' = "idle"
    /\ now' = 0
    /\ req' = ReqIdle
    /\ rv' = RvIdle
    /\ sn' = SnIdle
    /\ inflight' = NULL
    /\ response' = NULL
    /\ hist' = HistIdle
    /\ UNCHANGED <<world, probe>>

NextTwin == HandlerNext \/ Restart

SpecTwin == InitTwin /\ [][NextTwin]_vars

(***************************************************************************)
(* Runs over captures of every quality: the historical index lists three   *)
(* captures, the availability index names none or one of the two latest,   *)
(* and each replay of the two latest holds one fixed document.             *)
(***************************************************************************)
CaptureAvailabilityResponses ==
    { HttpResponse(200, [kind |-> "empty"]) }
    \cup { HttpResponse(200, [kind |-> "closest",
                              closest |-> SnapshotEntry(
                                  [ArchiveUrlOf(LocalUrl, Timestamp(v), "") EXCEPT
                                     !.scheme = "http"],
                                  Timestamp(v), LocalUrl)])
             : v \in {MaxTimestamp - 1, MaxTimestamp} }
CaptureCdxResponses ==
    { HttpResponse(200, [kind |-> "rows",
                         rows |-> <<[timestamp |-> Timestamp(MaxTimestamp)],
                                    [timestamp |-> Timestamp(MaxTimestamp - 1)],
                                    [timestamp |-> Timestamp(MaxTimestamp - 2)]>>]) }
CaptureSnapshotUrls == {MaxTimestamp - 1, MaxTimestamp} \X {"", "id"}
CaptureSnapshotResponses ==
    { HttpResponse(404, UnreadableDoc), HttpResponse(200, PoorDoc),
      HttpResponse(200, FairDoc), HttpResponse(200, GoodDoc) }
CaptureWorlds ==
    [profile : {"captures"},
     availability : [{LocalUrl} -> CaptureAvailabilityResponses],
     cdx : [{LocalUrl} -> CaptureCdxResponses],
     snapshot : [CaptureSnapshotUrls -> CaptureSnapshotResponses],
     save : {SaveResponse(200, ContentLocation, SaveText(TRUE, {}))}]

InitCaptures ==
    /\ HandlerIdle
    /\ world \in CaptureWorlds
    /\ probe = NoProbe

SpecCaptures == InitCaptures /\ [][Next]_vars

(***************************************************************************)
(* Runs against indexes whose timestamps may be malformed.                 *)
(***************************************************************************)
InitStamps ==
    /\ HandlerIdle
    /\ world = StampWorld
    /\ probe = NoProbe

SpecStamps == InitStamps /\ [][Next]_vars

(***************************************************************************)
(* Lines 510-540: archive URLs as text.  A URL is the sequence of its      *)
(* pieces ("https:", "//", host, "/", path pieces); a 14-digit timestamp   *)
(* and a modifier with its underscore are one piece each, so the regular   *)
(* expressions of the code are matched piece by piece.                     *)
(***************************************************************************)
ARCHIVE_WEB_PREFIX == <<"https:", "//", "web.archive.org", "/", "web", "/">>
TimestampPieces == {"20240101000000", "20230101000000"}
ModifierPieces == {"im_", "id_"}
ModifierPiece(modifier) == IF modifier = "im" THEN "im_" ELSE "id_"
StartsWith(text, prefix) ==
    Len(text) >= Len(prefix) /\ SubSeq(text, 1, Len(prefix)) = prefix

\* ^https?:\/\/web\.archive\.org\/web\/\d{14} at the head of the text
WaybackHead(url) ==
    /\ Len(url) >= 8
    /\ url[1] \in {"http:", "https:"}
    /\ SubSeq(url, 2, 6) = <<"//", "web.archive.org", "/", "web", "/">>
    /\ url[7] \in TimestampPieces

\* the same without the [a-z]{0,2}_? of the modifier
stripWaybackPrefixNoModifier(url) ==
    IF url = <<>> THEN <<>>
    ELSE IF WaybackHead(url) /\ url[8] = "/" THEN SubSeq(url, 9, Len(url))
    ELSE url

stripWaybackPrefix(url) ==
    IF url = <<>> THEN <<>>
    ELSE IF WaybackHead(url) /\ url[8] = "/" THEN SubSeq(url, 9, Len(url))
    ELSE IF WaybackHead(url) /\ Len(url) >= 9 /\ url[8] \in ModifierPieces /\ url[9] = "/"
    THEN SubSeq(url, 10, Len(url))
    ELSE url

\* new URL(value).toString(): scheme and host in lower case, a space of the
\* path percent-encoded, "/" for an empty path.  An absolute URL parses, so
\* the encodeURI of the catch branch is not reached.
SerializePiece(piece) ==
    CASE piece = "HTTP:" -> "http:"
      [] piece = "EXAMPLE.com" -> "example.com"
      [] piece = "a b.png" -> "a%20b.png"
      [] OTHER -> piece

normalizeArchiveTargetUrl(value) ==
    IF value = <<>> THEN <<>>
    ELSE LET serialized == [i \in 1..Len(value) |-> SerializePiece(value[i])]
         IN  IF Len(serialized) = 3 THEN Append(serialized, "/") ELSE serialized

\* \/web\/(\d{14})([a-z]{2}_)?\/ matched at piece i
WebMatchAt(url, i) ==
    /\ i + 4 <= Len(url)
    /\ SubSeq(url, i, i + 2) = <<"/", "web", "/">>
    /\ url[i + 3] \in TimestampPieces
    /\ \/ url[i + 4] = "/"
       \/ /\ i + 5 <= Len(url)
          /\ url[i + 4] \in ModifierPieces
          /\ url[i + 5] = "/"

buildArchiveUrl(absoluteUrl, timestamp, modifier) ==
    IF timestamp = "" THEN absoluteUrl
    ELSE IF StartsWith(absoluteUrl, ARCHIVE_WEB_PREFIX)
    THEN IF modifier = "" THEN absoluteUrl
         ELSE LET matches == {i \in 1..Len(absoluteUrl) : WebMatchAt(absoluteUrl, i)}
              IN  IF matches = {} THEN absoluteUrl
                  ELSE LET i == CHOOSE k \in matches : \A l \in matches : k <= l
                           hasModifier == absoluteUrl[i + 4] \in ModifierPieces
                           after == IF hasModifier THEN i + 6 ELSE i + 5
                       IN  IF hasModifier /\ absoluteUrl[i + 4] = ModifierPiece(modifier)
                           THEN absoluteUrl
                           ELSE SubSeq(absoluteUrl, 1, i - 1)
                                \o <<"/", "web", "/", absoluteUrl[i + 3],
                                     ModifierPiece(modifier), "/">>
                                \o SubSeq(absoluteUrl, after, Len(absoluteUrl))
    ELSE LET suffix == IF modifier = "" THEN <<>> ELSE <<ModifierPiece(modifier)>>
             safeUrl == normalizeArchiveTargetUrl(absoluteUrl)
         IN  ARCHIVE_WEB_PREFIX \o <<timestamp>> \o suffix \o <<"/">> \o safeUrl

(***************************************************************************)
(* The pure functions on their own: the inputs are drawn from grids that   *)
(* straddle the thresholds of the code.                                    *)
(***************************************************************************)
InitProbe ==
    /\ HandlerIdle
    /\ world = AnyWorld
    /\ probe = NoProbe

ProbeLengths == {0, 1000, 2199, 2200, 4000, 4900, 6000}
ProbeCoverages == {ZeroRatio, Ratio(1, 2), Ratio(9, 10)}
ProbeExtractions ==
    { [quality |-> [hasWarning |-> w, extractedTextLength |-> e, coverage |-> c,
                    sourceTextLength |-> c.d]]
        : w \in BOOLEAN, e \in ProbeLengths, c \in ProbeCoverages }

CompareProbe ==
    /\ probe = NoProbe
    /\ \E a \in ProbeExtractions, b \in ProbeExtractions, c \in ProbeExtractions :
         probe' = [kind |-> "compare", a |-> a, b |-> b, c |-> c,
                   ab |-> compareExtractionQuality(a, b),
                   bc |-> compareExtractionQuality(b, c),
                   ac |-> compareExtractionQuality(a, c)]
    /\ UNCHANGED <<pc, now, req, rv, sn, inflight, response, hist, world, twin>>

SpecCompare == InitProbe /\ [][CompareProbe]_vars

\* pairs of extractions around the ratio 1.25 and the difference 1200, a
\* missing extraction among them
PairLengths == {0, 1, 1000, 1199, 1200, 4800, 5999, 6000, 7199, 7200}
PairCoverages == {ZeroRatio, Ratio(1, 2), Ratio(9, 10), Ratio(6, 5)}
PairExtractions ==
    {NULL} \cup
    { [quality |-> [hasWarning |-> w, extractedTextLength |-> e, coverage |-> c,
                    sourceTextLength |-> c.d]]
        : w \in BOOLEAN, e \in PairLengths, c \in PairCoverages }

PairProbe ==
    /\ probe = NoProbe
    /\ \E a \in PairExtractions, b \in PairExtractions :
         probe' = [kind |-> "pair", a |-> a, b |-> b,
                   ab |-> compareExtractionQuality(a, b),
                   ba |-> compareExtractionQuality(b, a)]
    /\ UNCHANGED <<pc, now, req, rv, sn, inflight, response, hist, world, twin>>

SpecPair == InitProbe /\ [][PairProbe]_vars

\* resolved pages: the incumbent of the availability index, the candidate of
\* the historical index; timestamps of 14 digits, of 13, and none
PageTimestamps == {NULL, Timestamp(1), Timestamp(2), [digits |-> 13, value |-> 9]}
PageExtractions ==
    { [quality |-> [hasWarning |-> w, extractedTextLength |-> e, coverage |-> c,
                    sourceTextLength |-> c.d]]
        : w \in BOOLEAN, e \in {4800, 6000}, c \in {Ratio(1, 2), Ratio(9, 10)} }
ProbePages(source) ==
    {NULL} \cup
    { [extraction |-> e, archiveUrl |-> NULL, archiveTimestamp |-> ts, archiveSource |-> source]
        : e \in PageExtractions, ts \in PageTimestamps }

PageProbe ==
    /\ probe = NoProbe
    /\ \E left \in ProbePages("availability"), right \in ProbePages("cdx") :
         probe' = [kind |-> "page", left |-> left, right |-> right,
                   chosen |-> chooseBestResolvedPage(left, right)]
    /\ UNCHANGED <<pc, now, req, rv, sn, inflight, response, hist, world, twin>>

SpecPage == InitProbe /\ [][PageProbe]_vars

ProbeDocs ==
    { Doc(TRUE, r, f, j, h, a, b)
        : r \in {0, 799, 800, 2000, 2900, 4000, 5000, 6000},
          f \in {0, 3000, 4800, 8000},
          j \in {0, 8000},
          h \in {0, 40},
          a \in {0, 3499, 3500, 3800, 3801, 5000, 6200, 10000},
          b \in {0, 4999, 12000} }
    \cup {UnreadableDoc}

ExtractProbe ==
    /\ probe = NoProbe
    /\ \E html \in ProbeDocs, variant \in {"replay_snapshot", "id_snapshot"} :
         probe' = [kind |-> "extract", html |-> html,
                   result |-> extractFromHtmlCandidate(html, variant)]
    /\ UNCHANGED <<pc, now, req, rv, sn, inflight, response, hist, world, twin>>

SpecExtract == InitProbe /\ [][ExtractProbe]_vars

\* article and body lengths around the floor of 5000 and the factor 1.9
ProbeArticleLengths == {0, 1, 1000, 2631, 2632, 3000, 4999, 5000, 10000, 12000}
ProbeBodyLengths == {0, 1, 3000, 4999, 5000, 5001, 5700, 9499, 9500, 9501, 19000, 19001}

SourceProbe ==
    /\ probe = NoProbe
    /\ \E article \in ProbeArticleLengths, body \in ProbeBodyLengths :
         probe' = [kind |-> "source", article |-> article, body |-> body,
                   sourceLength |-> resolveSourceLength(article, body)]
    /\ UNCHANGED <<pc, now, req, rv, sn, inflight, response, hist, world, twin>>

SpecSource == InitProbe /\ [][SourceProbe]_vars

\* extractions as extractFromHtmlCandidate makes them from an extracted and a
\* source length, with or without a warning, and a missing one
DecideSourceLengths == {0, 3000, 5000, 10000}
DecideExtractedLengths ==
    {0, 1000, 2039, 2040, 2159, 2160, 3399, 3400, 3599, 3600, 4199, 4200, 5199, 5200,
     6799, 6800, 7199, 7200, 12000}
DecideExtractions ==
    {NULL} \cup
    { [quality |-> [hasWarning |-> w, extractedTextLength |-> e,
                    coverage |-> IF src > 0 THEN Ratio(e, src) ELSE ZeroRatio,
                    sourceTextLength |-> src]]
        : w \in BOOLEAN, e \in DecideExtractedLengths, src \in DecideSourceLengths }

DecideProbe ==
    /\ probe = NoProbe
    /\ \E extraction \in DecideExtractions :
         probe' = [kind |-> "decide", extraction |-> extraction,
                   alternate |-> shouldTryAlternateVariant(extraction),
                   additional |-> shouldTryAdditionalSnapshots(
                                      IF extraction = NULL THEN NULL
                                      ELSE [extraction |-> extraction]),
                   warning |-> IF extraction = NULL THEN NULL
                               ELSE buildExtractionWarning(
                                        extraction.quality.extractedTextLength,
                                        extraction.quality.sourceTextLength, 0)]
    /\ UNCHANGED <<pc, now, req, rv, sn, inflight, response, hist, world, twin>>

SpecDecide == InitProbe /\ [][DecideProbe]_vars

\* documents whose readability text is set against their article text, around
\* the limits of the warning and of the decisions
FlagDocs ==
    { Doc(TRUE, r, 0, 0, 0, a, b)
        : r \in {799, 800, 1900, 2474, 2475, 2520, 2749, 2750, 2800, 2899, 2900, 4000, 4949,
                 4950, 5219, 5700},
          a \in {3499, 3500, 4500, 5000, 9000, 10000},
          b \in {0, 4999} }

FlagProbe ==
    /\ probe = NoProbe
    /\ \E html \in FlagDocs :
         LET extraction == extractFromHtmlCandidate(html, "replay_snapshot")
         IN  probe' = [kind |-> "flag", html |-> html, extraction |-> extraction,
                       alternate |-> shouldTryAlternateVariant(extraction),
                       additional |-> shouldTryAdditionalSnapshots(
                                          [extraction |-> extraction])]
    /\ UNCHANGED <<pc, now, req, rv, sn, inflight, response, hist, world, twin>>

SpecFlag == InitProbe /\ [][FlagProbe]_vars

\* JSON-LD values down to two levels: leaves, arrays of leaves and objects of
\* one entry inside an object or an array
JsonLdKeys == {"articleBody", "text", "body", "description", "@graph"}
JsonLdLeaves ==
    {JsonNull, JsonNumber(7), JsonString("aaa", 3), JsonString("bbbbb", 5),
     JsonString("cccccccc", 8)}
JsonLdInner ==
    JsonLdLeaves
    \cup {JsonArray(<<a>>) : a \in JsonLdLeaves}
    \cup {JsonArray(<<a, b>>) : a, b \in JsonLdLeaves}
    \cup {JsonObject(<<<<k, v>>>>) : k \in JsonLdKeys, v \in JsonLdLeaves}
JsonLdValues ==
    JsonLdInner
    \cup {JsonObject(<<<<k, v>>>>) : k \in JsonLdKeys, v \in JsonLdInner}
    \cup {JsonObject(<<<<pair[1], v1>>, <<pair[2], v2>>>>)
            : pair \in {q \in JsonLdKeys \X {"articleBody", "description"} : q[1] # q[2]},
              v1 \in JsonLdLeaves, v2 \in {JsonString("bbbbb", 5), JsonString("dddddd", 6)}}

JsonLdProbe ==
    /\ probe = NoProbe
    /\ \E value \in JsonLdValues :
         probe' = [kind |-> "jsonld", value |-> value,
                   longest |-> findLongestArticleBodyInJsonLd(value)]
    /\ UNCHANGED <<pc, now, req, rv, sn, inflight, response, hist, world, twin>>

SpecJsonLd == InitProbe /\ [][JsonLdProbe]_vars

\* calls of fetchWithDeadline: with and without a deadline, early and late,
\* with per-call timeouts below and above the floor
FetchProbeDeadlines == {0, 2000, 6000}
FetchProbeInstants == {0, 400, 1700, 1900}
FetchProbeTimeouts == {100, API_FETCH_TIMEOUT_MS, SNAPSHOT_FETCH_TIMEOUT_MS}
FetchProbeReserves == {0, DEADLINE_RESERVE_MS}
FetchProbeLatencies == {100, 249, 250, 300, 4400, 10000}
FetchProbeUpstreams ==
    {NetworkError, HttpResponse(200, [kind |-> "empty"]), HttpResponse(503, [kind |-> "empty"])}

FetchProbe ==
    /\ probe = NoProbe
    /\ \E t \in FetchProbeInstants, deadlineMs \in FetchProbeDeadlines,
          timeoutMs \in FetchProbeTimeouts, reserveMs \in FetchProbeReserves,
          lat \in FetchProbeLatencies, upstream \in FetchProbeUpstreams :
         probe' = [kind |-> "fetch", t |-> t, deadlineMs |-> deadlineMs,
                   timeoutMs |-> timeoutMs, reserveMs |-> reserveMs,
                   lat |-> lat, upstream |-> upstream,
                   outcome |-> fetchWithDeadline(t, deadlineMs, timeoutMs, reserveMs,
                                                 lat, upstream)]
    /\ UNCHANGED <<pc, now, req, rv, sn, inflight, response, hist, world, twin>>

SpecFetch == InitProbe /\ [][FetchProbe]_vars

\* absolute resource URLs: serialized or not, on the archive's host or not,
\* already archive URLs or not
ProbeUrlPaths ==
    { <<>>, <<"/">>, <<"/", "a.png">>, <<"/", "a b.png">>, <<"/", "web", "/", "a.png">>,
      <<"/", "web", "/", "20230101000000", "/", "http:", "//", "example.com", "/", "a.png">>,
      <<"/", "web", "/", "20230101000000", "im_", "/", "http:", "//", "example.com", "/",
        "a.png">> }
ProbeUrls ==
    { <<scheme, "//", host>> \o path
        : scheme \in {"http:", "https:", "HTTP:"},
          host \in {"example.com", "EXAMPLE.com", "web.archive.org"},
          path \in ProbeUrlPaths }

UrlProbe ==
    /\ probe = NoProbe
    /\ \E u \in ProbeUrls, ts \in TimestampPieces \cup {""}, m \in {"", "im", "id"} :
         probe' = [kind |-> "url", u |-> u, ts |-> ts, m |-> m,
                   archived |-> buildArchiveUrl(u, ts, m),
                   stripped |-> stripWaybackPrefix(buildArchiveUrl(u, ts, m))]
    /\ UNCHANGED <<pc, now, req, rv, sn, inflight, response, hist, world, twin>>

SpecUrl == InitProbe /\ [][UrlProbe]_vars

\* buildTargetUrlVariants on valid http(s) URL strings, typed or serialized
ProbeTargetHosts ==
    { <<"example", "com">>, <<"www", "example", "com">>, <<"EXAMPLE", "com">>,
      <<"www", "www", "example", "com">>, <<"wiki", "example", "com">>, <<"www", "com">>,
      <<"localhost">>, <<"LOCALHOST">>, <<"www", "localhost">>, <<"intranet">>, <<"www">>,
      <<"127", "0", "0", "1">>, <<"[::1]">> }
ProbeTargetPaths ==
    { <<>>, <<"/">>, <<"/", "a">>, <<"/", "a", "/">>, <<"/", "/">>, <<"/", "a", "/", "b">> }
ProbeTargetUrls ==
    { Url(scheme, host, path, search)
        : scheme \in {"http", "https", "HTTP"}, host \in ProbeTargetHosts,
          path \in ProbeTargetPaths, search \in {"", "?q=1"} }

TargetProbe ==
    /\ probe = NoProbe
    /\ \E u \in ProbeTargetUrls :
         probe' = [kind |-> "target", u |-> u, variants |-> buildTargetUrlVariants(u)]
    /\ UNCHANGED <<pc, now, req, rv, sn, inflight, response, hist, world, twin>>

SpecTarget == InitProbe /\ [][TargetProbe]_vars

(***************************************************************************)
(* Properties.                                                             *)
(***************************************************************************)

\* C1: the handler returns its response no later than deadline + 250 ms,
\* whatever the latencies of the upstream calls.
C1_ReturnsByDeadlinePlusReserve ==
    (pc = "done" /\ req.deadlineMs > 0)
        => now <= req.deadlineMs + DEADLINE_RESERVE_MS

\* C2: a call is issued only while deadline - now > 250 ms, and whenever
\* deadline - now - reserve <= 0 fetchWithDeadline throws DEADLINE_EXCEEDED
\* instead of issuing it (it never throws with budget left).
C2_CallsIssuedWithBudget ==
    /\ ~hist.lateIssue
    /\ ~hist.earlyThrow
    /\ (inflight # NULL
          => req.deadlineMs - inflight.issuedAt > DEADLINE_RESERVE_MS)

\* a lookup that was refused for lack of budget, with no call in flight
C2_Witness ==
    /\ hist.deadlineErrors
    /\ pc = "cdx_result"
    /\ inflight = NULL
    /\ deadlineRemainingMs(now) <= DEADLINE_RESERVE_MS

\* C3: the save endpoint is requested at most once in a run, only for URL
\* variant 0, only after the availability lookup and the historical-index
\* lookup of variant 0 both gave no capture, and only with more than 4500 ms
\* of the deadline left.
C3_SaveOnlyOnceForVariantZero ==
    /\ hist.saveRequests <= 1
    /\ (hist.saveRequests > 0
          => /\ hist.saveIndex = 0
             /\ hist.saveAfterLookups
             /\ ~hist.saveLowBudget)
    /\ (pc \in {"save_fetch", "save_body"} => req.index = 0)

\* a later variant finds no capture after variant 0 requested the save
C3_Witness ==
    /\ hist.saveRequests = 1
    /\ req.index > 0
    /\ pc = "no_primary"
    /\ ~isDeadlineExceeded(now, API_FETCH_TIMEOUT_MS)

\* C4: a URL variant whose primary capture was located and for which no
\* snapshot attempt produced an extraction results in 200
\* 'archived_link_only' with the primary capture's URL.
C4_LinkOnlyWhenNoExtraction ==
    (pc = "variant_done" /\ rv.primarySnapshot # NULL /\ ~hist.extracted)
        => /\ rv.attempt.statusCode = 200
           /\ rv.attempt.payload.status = "archived_link_only"
           /\ rv.attempt.payload.archiveUrl = rv.primarySnapshot.url

\* the snapshot fetches of a located capture ended in a timeout
C4_Witness ==
    /\ pc = "variant_done"
    /\ rv.primarySnapshot # NULL
    /\ ~hist.extracted
    /\ rv.lastFetchError # NULL
    /\ rv.lastFetchError.timeout

\* C5: once a snapshot fetch has timed out after an earlier candidate of the
\* same URL-variant resolution produced an extraction, no further snapshot
\* candidate is fetched in that resolution.
C5_NoFetchAfterTimeout == ~hist.fetchAfterTimeout

\* C6: with X >= Y standing for compareExtractionQuality(X, Y) <= 0, A >= B
\* and B >= C imply A >= C.
C6_CompareTransitive ==
    probe.kind = "compare"
        => ((probe.ab <= 0 /\ probe.bc <= 0) => probe.ac <= 0)

\* a chain whose ends are far enough apart for the length override, which
\* beats the warning of the longer one
C6_Witness ==
    /\ probe.kind = "compare"
    /\ probe.ab <= 0
    /\ probe.bc <= 0
    /\ probe.a.quality.hasWarning
    /\ ~probe.c.quality.hasWarning
    /\ probe.a.quality.extractedTextLength >= probe.c.quality.extractedTextLength + 1200
    /\ probe.b.quality.extractedTextLength # probe.a.quality.extractedTextLength
    /\ probe.b.quality.extractedTextLength # probe.c.quality.extractedTextLength

\* C7: coverage is extractedTextLength / sourceTextLength (0 without a
\* source length); the warning is there exactly when sourceTextLength >= 3500,
\* extractedTextLength >= 800, coverage < 0.58 and the gap exceeds 1800;
\* hasWarning says whether it is there.
C7_CoverageAndWarning ==
    (probe.kind = "extract" /\ probe.result # NULL)
        => LET q == probe.result.quality
               e == q.extractedTextLength
               src == q.sourceTextLength
               warned == probe.result.extractionWarning # NULL
           IN  /\ (src > 0 => q.coverage.d > 0 /\ q.coverage.n * src = e * q.coverage.d)
               /\ (src = 0 => q.coverage.n = 0 /\ ~warned)
               /\ warned <=> (/\ src >= 3500
                              /\ e >= 800
                              /\ RatioLt(q.coverage, 58, 100)
                              /\ src - e > 1800)
               /\ q.hasWarning <=> warned

C7_Witness ==
    /\ probe.kind = "extract"
    /\ probe.result # NULL
    /\ probe.result.extractionWarning # NULL
    /\ probe.result.quality.hasWarning
    /\ probe.result.quality.sourceTextLength = 12000


\* the save endpoint answered 200 with a content-location header
SaveAnswered200WithLocation ==
    /\ hist.saveResponse # NULL
    /\ hist.saveResponse.status = 200
    /\ hist.saveResponse.contentLocation # ""

SubmittedWithLocation ==
    /\ response.statusCode = 200
    /\ response.payload.status = "submitted"
    /\ response.payload.archiveUrl =
           [origin |-> ARCHIVE_ORIGIN, path |-> hist.saveResponse.contentLocation]

\* C10 as stated: when the lookups find no capture of the target URL and the
\* save endpoint answers 200 with a content-location header, the response is
\* 'submitted' with archiveUrl = https://web.archive.org + the header.
C10_SubmittedOn200WithLocation ==
    (pc = "done" /\ SaveAnswered200WithLocation) => SubmittedWithLocation

\* the rejection reasons the code reads in the body of the save answer
RejectionPhrases ==
    {"robots.txt", "access is forbidden", "unavailable for archiving",
     "cannot be archived", "rate limit", "blocked", "archiving"}

SaveDetailGivesNoReason ==
    LET detail == normalizeSaveDetail(hist.saveResponse.body)
    IN  detail.empty \/ {LowerCase(p) : p \in detail.phrases} \cap RejectionPhrases = {}

\* C10: when, besides, the body of the save answer is empty or names no
\* rejection reason, and no URL variant of the run locates a capture, the
\* response is 'submitted' with archiveUrl = https://web.archive.org + the
\* header.
C10_SubmittedWhenNothingRejectsOrLocates ==
    (/\ pc = "done"
     /\ SaveAnswered200WithLocation
     /\ SaveDetailGivesNoReason
     /\ ~hist.captureLocated)
        => SubmittedWithLocation

\* a run of several URL variants, none locating a capture, after a save
\* answer whose body has text but no rejection reason
C10_Witness ==
    /\ pc = "done"
    /\ SaveAnswered200WithLocation
    /\ ~normalizeSaveDetail(hist.saveResponse.body).empty
    /\ SaveDetailGivesNoReason
    /\ ~hist.captureLocated
    /\ req.index > 1
    /\ SubmittedWithLocation


\* C8 as stated: for any absolute resource URL u, 14-digit timestamp ts and
\* modifier m, stripWaybackPrefix(buildArchiveUrl(u, ts, m)) = u.
C8_RoundTripAnyUrl ==
    (probe.kind = "url" /\ probe.ts # "") => probe.stripped = probe.u

\* C8: the round trip gives u back when u is in serialized form (new
\* URL(u).toString() = u) and does not itself start with
\* https://web.archive.org/web/.
C8_RoundTripSerializedUrl ==
    (/\ probe.kind = "url"
     /\ probe.ts # ""
     /\ normalizeArchiveTargetUrl(probe.u) = probe.u
     /\ ~StartsWith(probe.u, ARCHIVE_WEB_PREFIX))
        => probe.stripped = probe.u

\* a serialized URL of the archive's own host archived with a modifier
C8_Witness ==
    /\ probe.kind = "url"
    /\ probe.ts # ""
    /\ probe.m = "im"
    /\ normalizeArchiveTargetUrl(probe.u) = probe.u
    /\ ~StartsWith(probe.u, ARCHIVE_WEB_PREFIX)
    /\ probe.u[3] = "web.archive.org"
    /\ Len(probe.u) > 8
    /\ probe.archived # probe.u
    /\ probe.stripped = probe.u


SameResponseAsTwin ==
    /\ response.statusCode = twin.response.statusCode
    /\ response.payload.status = twin.response.payload.status
    /\ response.payload.archiveUrl = twin.response.payload.archiveUrl
    /\ response.payload.archiveTimestamp = twin.response.payload.archiveTimestamp
    /\ response.payload.extraction = twin.response.payload.extraction

SaveBodyHasRobots ==
    /\ hist.saveResponse # NULL
    /\ \E i \in 1..Len(hist.saveResponse.body) :
         LowerCase(hist.saveResponse.body[i].phrase) = "robots.txt"

\* the detail the code keeps of the body has robots.txt in it
SaveDetailHasRobots ==
    /\ hist.saveResponse # NULL
    /\ \E p \in normalizeSaveDetail(hist.saveResponse.body).phrases :
         LowerCase(p) = "robots.txt"

BlockedByRobots ==
    /\ rv.attempt.statusCode = 200
    /\ rv.attempt.payload.status = "blocked"
    /\ rv.attempt.payload.submission.category = "robots"
    /\ rv.attempt.payload.submission.label = "Blocked by robots.txt"

\* C11 as stated: robots.txt anywhere in the body of the save answer, in any
\* letter case and under any HTTP status, makes the result of variant 0
\* 'blocked' with category 'robots' and label 'Blocked by robots.txt'.
C11_RobotsAnywhereInBody ==
    (pc = "variant_done" /\ req.index = 0 /\ SaveBodyHasRobots) => BlockedByRobots

\* C11: robots.txt, in any letter case and under any HTTP status, makes the
\* result of variant 0 'blocked' / 'robots' / 'Blocked by robots.txt' when it
\* stands in the detail: the visible text of the body (tags, scripts and
\* styles removed), cut to its first 597 characters when longer than 600.
C11_RobotsInSaveDetail ==
    (pc = "variant_done" /\ req.index = 0 /\ SaveDetailHasRobots) => BlockedByRobots

\* ROBOTS.TXT in upper case in the body of a 503 answer
C11_Witness ==
    /\ pc = "variant_done"
    /\ req.index = 0
    /\ SaveDetailHasRobots
    /\ hist.saveResponse.status = 503
    /\ "ROBOTS.TXT" \in normalizeSaveDetail(hist.saveResponse.body).phrases
    /\ BlockedByRobots


\* an extraction whose content the JSON-LD body did not take over
ExtractedWithoutJsonLd ==
    /\ probe.kind = "extract"
    /\ probe.result # NULL
    /\ probe.result.content # "jsonld"

\* C12 as stated: a non-empty fallback-node extraction of length F replaces
\* the readability result of length R exactly when F >= 1200, F >= 1.2 x R and
\* F - R >= 800.
C12_FallbackReplacesAtOrAbove ==
    (ExtractedWithoutJsonLd /\ probe.html.fallback > 0)
        => (probe.result.content = "fallback"
              <=> /\ probe.html.fallback >= 1200
                  /\ probe.html.fallback * 10 >= probe.html.readability * 12
                  /\ probe.html.fallback - probe.html.readability >= 800)

\* C12: it replaces the readability result exactly when the fallback is tried
\* (R < 4500, or R < 0.75 x sourceArticleLength with a source article) and
\* F >= 1200, F > 1.2 x R strictly, F - R >= 800.
C12_FallbackReplacesWhenTriedAndAbove ==
    (ExtractedWithoutJsonLd /\ probe.html.fallback > 0)
        => (probe.result.content = "fallback"
              <=> /\ \/ probe.html.readability < 4500
                     \/ /\ probe.html.article > 0
                        /\ probe.html.readability * 4 < probe.html.article * 3
                  /\ probe.html.fallback >= 1200
                  /\ probe.html.fallback * 10 > probe.html.readability * 12
                  /\ probe.html.fallback - probe.html.readability >= 800)

\* a fallback of exactly 1.2 x R, with a gain of 800, is not taken
C12_Witness ==
    /\ ExtractedWithoutJsonLd
    /\ probe.html.readability = 4000
    /\ probe.html.fallback = 4800
    /\ probe.result.content = "readability"
    /\ probe.result.quality.extractedTextLength = 4000

\* the JSON-LD articleBody of the page is stronger than the readability text
JsonLdStrongerThanReadability ==
    /\ probe.html.jsonLd >= 1200
    /\ probe.html.jsonLd * 10 > probe.html.readability * 13
    /\ probe.html.jsonLd - probe.html.readability >= 900

ReadabilityResultReturned ==
    LET q == probe.result.quality
    IN  /\ probe.result.content = "readability"
        /\ q.extractedTextLength = probe.html.readability
        /\ q.coverage.n * q.sourceTextLength = probe.html.readability * q.coverage.d
        /\ (RatioGe(q.coverage, 58, 100) => probe.result.extractionWarning = NULL)

\* a readability text of at least 4500 characters and 0.75 of the source article
LongReadabilityText ==
    /\ probe.kind = "extract"
    /\ probe.result # NULL
    /\ probe.html.readability >= 4500
    /\ probe.html.readability * 4 >= probe.html.article * 3
    /\ probe.result.quality.sourceTextLength > 0

\* C13 as stated: with R >= 4500 and R >= 0.75 x sourceArticleLength the
\* content and extractedTextLength returned are those of the readability
\* result, coverage is R / sourceTextLength, and there is no warning when
\* that coverage is >= 0.58.
C13_LongReadabilityTextIsReturned == LongReadabilityText => ReadabilityResultReturned

\* C13: the same, unless the page carries a JSON-LD articleBody of length J
\* with J >= 1200, J > 1.3 x R and J - R >= 900, which replaces the content.
C13_LongReadabilityTextUnlessJsonLd ==
    (LongReadabilityText /\ ~JsonLdStrongerThanReadability) => ReadabilityResultReturned

\* 6000 characters against a source article of 6200, next to a fallback node
\* of 8000 that is not tried
C13_Witness ==
    /\ LongReadabilityText
    /\ ~JsonLdStrongerThanReadability
    /\ probe.html.readability = 6000
    /\ probe.html.article = 6200
    /\ probe.html.fallback = 8000
    /\ ReadabilityResultReturned


\* the url parameter of the request is missing, blank, no URL, or a URL of
\* another protocol than http and https
UrlParameterUnusable ==
    \/ req.event.url.kind \in {"missing", "blank", "garbage"}
    \/ req.event.url.parsed.scheme \notin {"http", "https"}

\* C14: a request that is not a GET is answered 405, whatever its url
\* parameter; a GET whose url parameter is missing, blank, unparsable or not
\* http/https is answered 400; neither issues an outbound call.
C14_RejectedBeforeAnyCall ==
    /\ (req.event # NULL /\ req.event.httpMethod # "GET")
          => /\ pc = "done"
             /\ response.statusCode = 405
             /\ ~hist.callsIssued
             /\ inflight = NULL
    /\ (req.event # NULL /\ req.event.httpMethod = "GET" /\ UrlParameterUnusable)
          => /\ pc = "done"
             /\ response.statusCode = 400
             /\ ~hist.callsIssued
             /\ inflight = NULL

\* a GET for an ftp URL, turned down
C14_Witness ==
    /\ pc = "done"
    /\ req.event.httpMethod = "GET"
    /\ req.event.url.kind = "ftp"
    /\ req.event.url.parsed = FtpUrl
    /\ response.statusCode = 400
    /\ ~hist.callsIssued


\* C15: the final response has status code 200, 400, 405, 500 or 502; the
\* 404 of a URL variant without a capture is never the final response.
C15_FinalStatusCodes ==
    pc = "done"
        => /\ response.statusCode \in {200, 400, 405, 500, 502}
           /\ response.payload.error # "No archived snapshot found for this URL variant."

\* a run in which a later URL variant ended in that 404
C15_Witness ==
    /\ pc = "done"
    /\ \E i \in 1..Len(hist.outcomes) : hist.outcomes[i].statusCode = 404
    /\ response.statusCode = 502


\* the categories of the outcomes of the URL variants, best first:
\* link-only, submitted, blocked, upstream error, extraction error, client error
OutcomeRank(outcome) ==
    IF outcome.statusCode = 200 /\ outcome.payload.status = "archived_link_only" THEN 6
    ELSE IF outcome.statusCode = 200 /\ outcome.payload.status = "submitted" THEN 5
    ELSE IF outcome.statusCode = 200 /\ outcome.payload.status = "blocked" THEN 4
    ELSE IF outcome.statusCode = 502 THEN 3
    ELSE IF outcome.statusCode = 500 THEN 2
    ELSE IF outcome.statusCode >= 400 /\ outcome.statusCode < 500 THEN 1
    ELSE 0

NoVariantArchived ==
    /\ Len(hist.outcomes) > 0
    /\ \A i \in 1..Len(hist.outcomes) :
         ~(hist.outcomes[i].statusCode = 200 /\ hist.outcomes[i].payload.status = "archived")

\* C20: when no attempted URL variant yields 'archived', the final response
\* is the outcome of the attempted variant of the best category, the
\* earliest one among those of that category; the index penalty never puts
\* an outcome of a lower category first.
C20_BestCategoryEarliestVariant ==
    (pc = "done" /\ NoVariantArchived)
        => \E i \in 1..Len(hist.outcomes) :
             /\ response = hist.outcomes[i]
             /\ \A j \in 1..Len(hist.outcomes) :
                  \/ OutcomeRank(hist.outcomes[j]) < OutcomeRank(hist.outcomes[i])
                  \/ (OutcomeRank(hist.outcomes[j]) = OutcomeRank(hist.outcomes[i]) /\ j >= i)

\* the third variant or a later one is link-only after variant 0 was
\* 'submitted', and carries the day in spite of its penalty
C20_Witness ==
    /\ pc = "done"
    /\ NoVariantArchived
    /\ OutcomeRank(hist.outcomes[1]) = 5
    /\ \E i \in 3..Len(hist.outcomes) :
         /\ OutcomeRank(hist.outcomes[i]) = 6
         /\ response = hist.outcomes[i]
         /\ \A j \in 1..(i - 1) : OutcomeRank(hist.outcomes[j]) < 6


\* the fixed categories of a rejected submission, each with its label
SubmissionLabels ==
    { <<"robots", "Blocked by robots.txt">>, <<"forbidden", "Access forbidden">>,
      <<"blocked", "Unavailable for archiving">>, <<"rate_limited", "Wayback rate limit">>,
      <<"unauthorized", "Unauthorized">>, <<"not_found", "Not found">>,
      <<"service_error", "Wayback service error">>,
      <<"unknown", "Unavailable for archiving">> }

SaveAnsweredNon2xx ==
    /\ hist.saveResponse # NULL
    /\ ~(hist.saveResponse.status >= 200 /\ hist.saveResponse.status <= 299)

\* C16: after a non-2xx answer of the save endpoint the result of variant 0
\* is 200 'blocked' with a submission of one of the fixed categories and that
\* category's label, and the save request was made once.
C16_Non2xxSaveIsBlocked ==
    (pc = "variant_done" /\ req.index = 0 /\ SaveAnsweredNon2xx)
        => /\ rv.attempt.statusCode = 200
           /\ rv.attempt.payload.status = "blocked"
           /\ <<rv.attempt.payload.submission.category,
                rv.attempt.payload.submission.label>> \in SubmissionLabels
           /\ rv.attempt.payload.submission.statusCode = hist.saveResponse.status
           /\ hist.saveRequests = 1

\* a 302 with an empty body: nothing to classify by, 'unknown'
C16_Witness ==
    /\ pc = "variant_done"
    /\ req.index = 0
    /\ SaveAnsweredNon2xx
    /\ hist.saveResponse.status = 302
    /\ hist.saveResponse.body = <<>>
    /\ rv.attempt.payload.status = "blocked"
    /\ rv.attempt.payload.submission.category = "unknown"


VariantNamesCapture ==
    /\ pc = "variant_done"
    /\ rv.attempt.payload.status \in {"archived", "archived_link_only"}

\* the result's capture is one the named index gave, under the name given for it
SourceNamedAs(availabilityName, historicalName) ==
    \/ /\ rv.attempt.payload.archiveSource = availabilityName
       /\ hist.availabilityCapture # NULL
       /\ rv.attempt.payload.archiveTimestamp = hist.availabilityCapture
    \/ /\ rv.attempt.payload.archiveSource = historicalName
       /\ rv.attempt.payload.archiveTimestamp \in hist.cdxCaptures

\* C17 as stated: a result that names a capture has archiveSource
\* 'availability' for a capture of the availability index and
\* 'historical_index' for one of the historical index.
C17_SourceHistoricalIndex ==
    VariantNamesCapture => SourceNamedAs("availability", "historical_index")

\* C17: a result that names a capture has archiveSource 'availability' for a
\* capture of the availability index and 'cdx' for one of the historical
\* index, and no other value.
C17_SourceAvailabilityOrCdx ==
    VariantNamesCapture => SourceNamedAs("availability", "cdx")

\* the availability index named capture 2, whose extraction failed, and the
\* result is an older capture of the historical index
C17_Witness ==
    /\ VariantNamesCapture
    /\ rv.attempt.payload.status = "archived"
    /\ rv.attempt.payload.archiveSource = "cdx"
    /\ hist.availabilityCapture # NULL
    /\ rv.attempt.payload.archiveTimestamp # hist.availabilityCapture
    /\ rv.attempt.payload.archiveTimestamp \in hist.cdxCaptures


\* what a URL variant without any capture results in (lines 1505-1580)
NoCaptureResult ==
    \/ rv.attempt.statusCode = 404
    \/ /\ rv.attempt.statusCode = 502
       /\ rv.attempt.payload.error = "Wayback lookup timed out before save submission."
    \/ /\ rv.attempt.statusCode = 200
       /\ rv.attempt.payload.status \in {"submitted", "blocked"}

\* a failed historical-index lookup leaves what an empty listing leaves: no
\* captures of that index, and a result decided by the rest of the resolution
CdxFailureIsNoCapture ==
    hist.cdxFailure # "none"
        => /\ rv.cdxSnapshots = <<>>
           /\ pc = "cdx_result" => rv.attempt = NULL
           /\ pc = "variant_done"
                => IF rv.primarySnapshot = NULL
                   THEN NoCaptureResult
                   ELSE /\ rv.attempt.payload.status \in {"archived", "archived_link_only"}
                        /\ rv.attempt.payload.archiveSource = "availability"

AvailabilityErrorResult ==
    /\ rv.attempt.statusCode = 502
    /\ rv.attempt.payload.error =
           IF hist.availabilityFailure \in {"timeout", "deadline"}
           THEN "Wayback availability check timed out."
           ELSE "Wayback availability check failed."

\* C18 as stated: a failed availability or historical-index lookup (status,
\* network error, timeout, unparsable body) is taken as "no capture" and by
\* itself gives the URL variant no error result.
C18_LookupFailureIsNoCapture ==
    /\ CdxFailureIsNoCapture
    /\ (pc = "variant_done" /\ hist.availabilityFailure # "none")
           => ~AvailabilityErrorResult

\* C18: a failed historical-index lookup is taken as "no capture" and by
\* itself gives the URL variant no error result; a failed availability lookup
\* ends the URL variant with a 502 naming the availability check.
C18_CdxFailureIsNoCaptureAvailabilityFailureIs502 ==
    /\ CdxFailureIsNoCapture
    /\ (pc = "variant_done" /\ hist.availabilityFailure # "none")
           => AvailabilityErrorResult /\ ~hist.cdxNone /\ hist.cdxFailure = "none"

\* the historical index answered 200 with a body that is no JSON, and the
\* save request was made as if it had listed nothing
C18_Witness ==
    /\ pc = "variant_done"
    /\ hist.cdxFailure = "body"
    /\ hist.availabilityFailure = "none"
    /\ rv.primarySnapshot = NULL
    /\ rv.attempt.payload.status = "submitted"
    /\ hist.saveRequests = 1


\* one host name is the other with a leading "www." label
WwwToggled(a, b) == a = <<"www">> \o b \/ b = <<"www">> \o a

\* one path is the other with a trailing "/"
SlashToggled(a, b) == a = Append(b, "/") \/ b = Append(a, "/")

\* hosts the claim excludes from the www variants
IpLiteralHosts == {<<"127", "0", "0", "1">>, <<"[::1]">>}
HostWithoutWwwVariant(host) ==
    host \in IpLiteralHosts \/ host = <<"localhost">> \/ Len(host) = 1

\* C19: for a valid http(s) URL u, buildTargetUrlVariants(u) is a list of 1 to
\* 4 URLs without duplicates that starts with u; every other element has the
\* scheme and query of u and differs from it by a toggled trailing slash of
\* the path, a toggled "www." host prefix, or both; a path "/" gets no slash
\* variant, and an IP literal, localhost or a dot-less host no www variant.
C19_TargetUrlVariants ==
    probe.kind = "target"
        => LET u == ParseUrl(probe.u)
               variants == probe.variants
           IN  /\ Len(variants) \in 1..4
               /\ \A i, j \in 1..Len(variants) : i # j => variants[i] # variants[j]
               /\ variants[1] = probe.u
               /\ \A i \in 2..Len(variants) :
                    LET v == ParseUrl(variants[i])
                    IN  /\ v.scheme = u.scheme
                        /\ v.search = u.search
                        /\ v.host = u.host \/ WwwToggled(v.host, u.host)
                        /\ v.path = u.path \/ SlashToggled(v.path, u.path)
                        /\ v.host # u.host \/ v.path # u.path
                        /\ u.path = <<"/">> => v.path = u.path
                        /\ HostWithoutWwwVariant(u.host) => v.host = u.host

\* a typed URL with a www host and a path: all four variants
C19_Witness ==
    /\ probe.kind = "target"
    /\ probe.u = Url("HTTP", <<"www", "example", "com">>, <<"/", "a", "/">>, "?q=1")
    /\ Len(probe.variants) = 4
    /\ probe.variants[4] = Url("http", <<"example", "com">>, <<"/", "a">>, "?q=1")


\* the replay modes of the fetches issued for one capture, in order
FetchModesOf(capture) ==
    LET OfCapture(f) == f.capture = capture
        fetched == SelectSeq(hist.fetches, OfCapture)
    IN  [i \in 1..Len(fetched) |-> fetched[i].variant]

\* C21: within one URL-variant resolution at most 2 captures are attempted
\* (failed attempts included), none of them twice, each is fetched in replay
\* mode and then at most once more in direct mode, and so at most 4 snapshot
\* fetches are issued.
C21_AtMostTwoCapturesFourFetches ==
    /\ Len(hist.attempts) <= 2
    /\ \A i, j \in 1..Len(hist.attempts) :
         i # j => hist.attempts[i].capture # hist.attempts[j].capture
    /\ Len(hist.fetches) <= 4
    /\ \A i \in 1..Len(hist.fetches) :
         /\ \E j \in 1..Len(hist.attempts) :
              hist.attempts[j].capture = hist.fetches[i].capture
         /\ FetchModesOf(hist.fetches[i].capture)
              \in {<<"replay_snapshot">>, <<"replay_snapshot", "id_snapshot">>}

\* two captures were attempted and all four fetches failed, while the
\* indexes named a third capture that was left alone
C21_Witness ==
    /\ pc = "variant_done"
    /\ Len(hist.attempts) = 2
    /\ Len(hist.fetches) = 4
    /\ \A i \in 1..4 : hist.fetches[i].done /\ hist.fetches[i].extraction = NULL
    /\ Cardinality(hist.cdxCaptures) = 3


\* the snapshot fetches of the running URL variant that produced an extraction
FetchesWithExtraction ==
    {i \in 1..Len(hist.fetches) : hist.fetches[i].extraction # NULL}

\* C22: the extraction of an 'archived' response is not strictly worse, under
\* compareExtractionQuality, than any extraction a snapshot fetch of the run
\* produced; and the resolved page is at all times one candidate as a whole:
\* its extraction was produced by a fetch of the capture its timestamp names.
C22_ArchivedIsBestAndWhole ==
    /\ (pc = "done" /\ response.payload.status = "archived")
           => \A i \in FetchesWithExtraction :
                compareExtractionQuality(response.payload.extraction,
                                         hist.fetches[i].extraction) <= 0
    /\ rv.resolvedPage # NULL
           => \E i \in FetchesWithExtraction :
                /\ hist.fetches[i].extraction = rv.resolvedPage.extraction
                /\ hist.fetches[i].capture[1] = rv.resolvedPage.archiveTimestamp

\* the second capture gave a worse extraction than the first, which stayed
C22_Witness ==
    /\ pc = "done"
    /\ response.payload.status = "archived"
    /\ Len(hist.attempts) = 2
    /\ response.payload.archiveTimestamp = hist.attempts[1].capture[1]
    /\ \E i \in FetchesWithExtraction :
         /\ hist.fetches[i].capture = hist.attempts[2].capture
         /\ compareExtractionQuality(response.payload.extraction,
                                     hist.fetches[i].extraction) < 0


\* C23: within one URL-variant resolution a direct-mode fetch follows the
\* finished replay-mode fetch of the same capture, and only when that gave no
\* extraction or one for which shouldTryAlternateVariant holds; a second
\* capture is attempted only without a resolved page or with one for which
\* shouldTryAdditionalSnapshots holds; and every snapshot fetch is started
\* with more than 4000 ms of the deadline left.
C23_FetchOrderAndBudget ==
    /\ \A i \in 1..Len(hist.fetches) :
         /\ hist.fetches[i].remainingMs > 4000
         /\ hist.fetches[i].variant = "id_snapshot"
              => /\ i > 1
                 /\ hist.fetches[i - 1].capture = hist.fetches[i].capture
                 /\ hist.fetches[i - 1].variant = "replay_snapshot"
                 /\ hist.fetches[i - 1].done
                 /\ shouldTryAlternateVariant(hist.fetches[i - 1].extraction)
    /\ \A i \in 2..Len(hist.attempts) :
         \/ hist.attempts[i].resolvedBefore = NULL
         \/ shouldTryAdditionalSnapshots(hist.attempts[i].resolvedBefore)

\* a poor replay was followed by the direct fetch, and the poor page that
\* came of the first capture by a second capture
C23_Witness ==
    /\ Len(hist.fetches) = 4
    /\ hist.fetches[1].extraction # NULL
    /\ hist.fetches[2].variant = "id_snapshot"
    /\ Len(hist.attempts) = 2
    /\ hist.attempts[2].resolvedBefore # NULL


\* the reference: which of two extractions wins, "a", "b" or "tie"
ReferenceWinner(a, b) ==
    IF a = NULL /\ b = NULL THEN "tie"
    ELSE IF a = NULL THEN "b"
    ELSE IF b = NULL THEN "a"
    ELSE
    LET la == a.quality.extractedTextLength
        lb == b.quality.extractedTextLength
        longer == IF la >= lb THEN la ELSE lb
        shorter == IF la >= lb THEN lb ELSE la
        farApart == /\ IF shorter = 0 THEN longer > 0 ELSE 100 * longer >= 125 * shorter
                    /\ longer - shorter >= 1200
        ca == a.quality.coverage
        cb == b.quality.coverage
    IN  IF farApart THEN (IF la > lb THEN "a" ELSE "b")
        ELSE IF a.quality.hasWarning # b.quality.hasWarning
             THEN (IF b.quality.hasWarning THEN "a" ELSE "b")
        ELSE IF la # lb THEN (IF la > lb THEN "a" ELSE "b")
        ELSE IF ca.n * cb.d > cb.n * ca.d THEN "a"
        ELSE IF ca.n * cb.d < cb.n * ca.d THEN "b"
        ELSE "tie"

\* C24: compareExtractionQuality(a, b) is negative, positive or zero as the
\* reference names a, b or neither the winner, and compare(b, a) has the
\* opposite sign.
C24_CompareAgreesWithReference ==
    probe.kind = "pair"
        => /\ probe.ab < 0 <=> ReferenceWinner(probe.a, probe.b) = "a"
           /\ probe.ab > 0 <=> ReferenceWinner(probe.a, probe.b) = "b"
           /\ Sign(probe.ab) = 0 - Sign(probe.ba)

\* 6000 characters with a warning against 4800 without: ratio 1.25 and
\* difference 1200, so the longer one wins in spite of its warning
C24_Witness ==
    /\ probe.kind = "pair"
    /\ probe.a # NULL
    /\ probe.b # NULL
    /\ probe.a.quality.extractedTextLength = 6000
    /\ probe.a.quality.hasWarning
    /\ probe.b.quality.extractedTextLength = 4800
    /\ ~probe.b.quality.hasWarning
    /\ probe.ab < 0


\* a timestamp of 14 digits
Parsable(timestamp) == timestamp # NULL /\ timestamp.digits = 14

\* C25: chooseBestResolvedPage(left, right) returns one of its arguments as
\* it is: the other one when one is null; else the one whose extraction wins
\* compareExtractionQuality; on a tie of quality the one with the greater
\* 14-digit timestamp, and left when the timestamps are equal or unparsable.
C25_ChoosesArgumentByQualityThenTimestamp ==
    probe.kind = "page"
        => LET left == probe.left
               right == probe.right
               chosen == probe.chosen
           IN  /\ chosen \in {left, right}
               /\ left = NULL => chosen = right
               /\ right = NULL => chosen = left
               /\ (left # NULL /\ right # NULL)
                    => LET order == compareExtractionQuality(right.extraction,
                                                             left.extraction)
                           lt == left.archiveTimestamp
                           rt == right.archiveTimestamp
                       IN  /\ order < 0 => chosen = right
                           /\ order > 0 => chosen = left
                           /\ (order = 0 /\ Parsable(lt) /\ Parsable(rt))
                                => chosen = IF rt.value > lt.value THEN right ELSE left
                           /\ (order = 0 /\ ~Parsable(lt) /\ ~Parsable(rt))
                                => chosen = left

\* a tie of quality between captures of the same timestamp: the incumbent
C25_Witness ==
    /\ probe.kind = "page"
    /\ probe.left # NULL
    /\ probe.right # NULL
    /\ probe.left.extraction = probe.right.extraction
    /\ probe.left.archiveTimestamp = Timestamp(2)
    /\ probe.right.archiveTimestamp = Timestamp(2)
    /\ probe.chosen = probe.left


\* the body is at least 5000 and more than 1.9 times the article
BodyMuchLarger(article, body) == body >= 5000 /\ 10 * body > 19 * article

\* C26 as stated: resolveSourceLength returns the body length exactly when
\* the body is at least 5000 and more than 1.9 times the article, and the
\* article length in every other case, an article of length 0 included.
C26_BodyWhenMuchLargerElseArticle ==
    probe.kind = "source"
        => probe.sourceLength =
               IF BodyMuchLarger(probe.article, probe.body) THEN probe.body
               ELSE probe.article

\* C26: with an article of length 0 resolveSourceLength returns the body
\* length; otherwise the body length exactly when the body is at least 5000
\* and more than 1.9 times the article, and the article length if not.
C26_BodyWhenMuchLargerOrNoArticle ==
    probe.kind = "source"
        => probe.sourceLength =
               IF probe.article = 0 \/ BodyMuchLarger(probe.article, probe.body)
               THEN probe.body
               ELSE probe.article

\* no article and a body below the floor: the body length is the baseline
C26_Witness ==
    /\ probe.kind = "source"
    /\ probe.article = 0
    /\ probe.body = 3000
    /\ probe.sourceLength = 3000


\* C27: shouldTryAlternateVariant and shouldTryAdditionalSnapshots are true
\* for a missing extraction; without a source length they are true exactly
\* below 4200 and below 5200 extracted characters; with a source length they
\* are false from a coverage of 0.68 and of 0.72 on; and for a coverage above
\* 1 both are false and there is no warning.
C27_DecisionsByCoverage ==
    probe.kind = "decide"
        => IF probe.extraction = NULL THEN probe.alternate /\ probe.additional
           ELSE LET source == probe.extraction.quality.sourceTextLength
                    extracted == probe.extraction.quality.extractedTextLength
                IN  /\ source <= 0 => /\ probe.alternate <=> extracted < 4200
                                      /\ probe.additional <=> extracted < 5200
                    /\ (source > 0 /\ 100 * extracted >= 68 * source) => ~probe.alternate
                    /\ (source > 0 /\ 100 * extracted >= 72 * source) => ~probe.additional
                    /\ (source > 0 /\ extracted > source)
                         => ~probe.alternate /\ ~probe.additional /\ probe.warning = NULL

\* 12000 characters extracted from a source of 10000
C27_Witness ==
    /\ probe.kind = "decide"
    /\ probe.extraction # NULL
    /\ probe.extraction.quality.sourceTextLength = 10000
    /\ probe.extraction.quality.extractedTextLength = 12000
    /\ ~probe.alternate
    /\ ~probe.additional
    /\ probe.warning = NULL


LookupLimits == -2..12

OutcomeArchived(outcome) == outcome.statusCode = 200 /\ outcome.payload.status = "archived"

\* C29: URL variants are resolved in list order; variant 0 is always
\* resolved; a later variant only when no earlier one came out archived and
\* more than 4000 ms remain to the deadline at that moment; the first archived
\* outcome is returned at once and no later variant is resolved.
C29_VariantsInOrderUntilArchived ==
    /\ \A i \in 1..Len(hist.starts) :
         /\ hist.starts[i].index = i - 1
         /\ hist.starts[i].targetUrl = req.variants[i]
         /\ i > 1 => /\ ~hist.starts[i].lowBudget
                     /\ Len(hist.outcomes) >= i - 1
                     /\ \A j \in 1..(i - 1) : ~OutcomeArchived(hist.outcomes[j])
    /\ Len(hist.outcomes) <= Len(hist.starts)
    /\ (pc = "done" /\ req.variants # <<>>) => Len(hist.starts) >= 1
    /\ \A k \in 1..Len(hist.outcomes) :
         OutcomeArchived(hist.outcomes[k])
             => /\ k = Len(hist.outcomes)
                /\ k = Len(hist.starts)
                /\ pc = "done"
                /\ response = json(200, hist.outcomes[k].payload)

\* the second variant came out archived and the third was never resolved
C29_Witness ==
    /\ pc = "done"
    /\ Len(req.variants) > 2
    /\ Len(hist.starts) = 2
    /\ OutcomeArchived(hist.outcomes[2])


RECURSIVE DirectKeyStrings(_)
DirectKeyStrings(value) ==
    IF value.kind = "array"
    THEN UNION {DirectKeyStrings(value.items[i]) : i \in 1..Len(value.items)}
    ELSE IF value.kind = "object"
    THEN UNION { (IF /\ value.entries[i][1] \in {"articleBody", "text", "body"}
                     /\ value.entries[i][2].kind = "string"
                  THEN {value.entries[i][2]} ELSE {})
                 \cup DirectKeyStrings(value.entries[i][2])
                 : i \in 1..Len(value.entries) }
    ELSE {}

\* C31: findLongestArticleBodyInJsonLd returns the longest string that is the
\* value of a key articleBody, text or body at any depth of the JSON-LD
\* value, the empty string when there is none, and never a string stored only
\* under another key.
C31_LongestUnderDirectKeys ==
    probe.kind = "jsonld"
        => LET strings == DirectKeyStrings(probe.value)
           IN  IF strings = {} THEN probe.longest = EmptyString
               ELSE /\ probe.longest \in strings
                    /\ \A string \in strings : string.length <= probe.longest.length


AbsentOr14Digits(timestamp) == timestamp = NULL \/ timestamp.digits = 14

\* the captures the locator has produced in the running resolution
LocatedCaptures ==
    (IF rv.primarySnapshot = NULL THEN {} ELSE {rv.primarySnapshot})
    \cup {rv.cdxSnapshots[i] : i \in 1..Len(rv.cdxSnapshots)}

\* the archiveTimestamp of the results of the variants and of the response
ReportedTimestamps ==
    {hist.outcomes[i].payload.archiveTimestamp : i \in 1..Len(hist.outcomes)}
    \cup (IF rv.attempt = NULL THEN {} ELSE {rv.attempt.payload.archiveTimestamp})
    \cup (IF rv.resolvedPage = NULL THEN {} ELSE {rv.resolvedPage.archiveTimestamp})
    \cup (IF response = NULL THEN {} ELSE {response.payload.archiveTimestamp})

\* C32: the timestamp of every capture the locator produces and the
\* archiveTimestamp of every response are null or exactly 14 digits, also when
\* an index sends a timestamp that is not 14 digits.
C32_CaptureAndResponseTimestamps14Digits ==
    /\ \A capture \in LocatedCaptures : AbsentOr14Digits(capture.timestamp)
    /\ \A timestamp \in ReportedTimestamps : AbsentOr14Digits(timestamp)

\* C32 (amended): the timestamp extracted from every capture the locator
\* produces and the archiveTimestamp of every response are null or exactly
\* 14 digits, also when an index sends a timestamp that is not 14 digits; the
\* capture's own timestamp field holds what the index sent.
C32_ExtractedAndResponseTimestamps14Digits ==
    /\ \A capture \in LocatedCaptures :
         AbsentOr14Digits(extractTimestamp(capture.url, capture.timestamp))
    /\ AbsentOr14Digits(sn.timestamp)
    /\ \A timestamp \in ReportedTimestamps : AbsentOr14Digits(timestamp)

\* the availability index sent 16 digits, and the archived response carries
\* the 14 digits of the capture's URL
C32_Witness ==
    /\ pc = "done"
    /\ response.statusCode = 200
    /\ response.payload.status = "archived"
    /\ rv.primarySnapshot # NULL
    /\ rv.primarySnapshot.timestamp # NULL
    /\ rv.primarySnapshot.timestamp.digits = 16
    /\ response.payload.archiveTimestamp = Timestamp(1)


\* the calls of the running resolution and of the request are within their limits
CallsWithinLimits ==
    /\ Len(hist.starts) <= 4
    /\ hist.availabilityCalls <= 1
    /\ Len(hist.cdxLookups) <= 1
    /\ Len(hist.fetches) <= 4
    /\ hist.saveRequests <= 1

\* C33: when every outbound call settles or is aborted, every invocation of
\* the handler ends with one response that never changes; its calls are
\* issued one at a time, over at most 4 URL variants, per variant at most
\* 1 availability lookup, 1 lookup in the historical index and 4 snapshot
\* fetches, and at most 1 save request in all.
C33_TerminatesWithBoundedCalls ==
    /\ <>(pc = "done")
    /\ [](response # NULL <=> pc = "done")
    /\ [][response # NULL => response' = response]_vars
    /\ [][(inflight' # inflight /\ inflight' # NULL) => inflight = NULL]_vars
    /\ []CallsWithinLimits

\* all four URL variants were resolved, the first one with a save request,
\* the last one with four snapshot fetches
C33_Witness ==
    /\ pc = "done"
    /\ Len(hist.starts) = 4
    /\ hist.saveRequests = 1
    /\ Len(hist.fetches) = 4


\* C34: an extraction that carries a completeness warning makes both
\* shouldTryAlternateVariant and shouldTryAdditionalSnapshots true.
C34_WarningKeepsSearching ==
    (probe.kind = "flag" /\ probe.extraction.quality.hasWarning)
        => probe.alternate /\ probe.additional

\* C34 (amended): an extraction that carries a completeness warning makes
\* shouldTryAlternateVariant true, and shouldTryAdditionalSnapshots true
\* unless its coverage is at least 0.55 and at most 2200 characters are missing.
C34_WarningKeepsSearchingUnlessSmallGap ==
    (probe.kind = "flag" /\ probe.extraction.quality.hasWarning)
        => LET quality == probe.extraction.quality
               smallGap == /\ 100 * quality.extractedTextLength
                                >= 55 * quality.sourceTextLength
                           /\ quality.sourceTextLength - quality.extractedTextLength <= 2200
           IN  /\ probe.alternate
               /\ probe.additional <=> ~smallGap

\* 2520 of 4500 characters: a warning, coverage 0.56, 1980 characters missing
C34_Witness ==
    /\ probe.kind = "flag"
    /\ probe.extraction.quality.hasWarning
    /\ probe.extraction.quality.extractedTextLength = 2520
    /\ probe.extraction.quality.sourceTextLength = 4500
    /\ probe.alternate
    /\ ~probe.additional


\* C35: in extractFromHtmlCandidate the recorded extractedTextLength never
\* decreases: adopting the fallback node and adopting the JSON-LD body each
\* strictly increase it, so the final length is at least the text length of
\* the readability result.
C35_AdoptionsIncreaseLength ==
    (probe.kind = "extract" /\ probe.result # NULL)
        => LET lengths == probe.result.lengths
               final == probe.result.quality.extractedTextLength
           IN  /\ lengths[1] = probe.html.readability
               /\ lengths[3] = final
               /\ lengths[1] <= lengths[2]
               /\ lengths[2] <= lengths[3]
               /\ lengths[2] # lengths[1] => lengths[2] > lengths[1]
               /\ probe.result.content = "fallback" => lengths[2] > lengths[1]
               /\ probe.result.content = "jsonld" => lengths[3] > lengths[2]
               /\ probe.result.content = "readability" => final = lengths[1]
               /\ final >= probe.html.readability

\* the fallback node was adopted, and then the JSON-LD body over it
C35_Witness ==
    /\ probe.kind = "extract"
    /\ probe.result # NULL
    /\ probe.result.content = "jsonld"
    /\ probe.result.lengths[1] < probe.result.lengths[2]
    /\ probe.result.lengths[2] < probe.result.lengths[3]


\* a result that says the capture was requested, without an archive URL
SubmittedWithoutUrl(result) ==
    /\ result.statusCode = 200
    /\ result.payload.status = "submitted"
    /\ result.payload.archiveUrl = NULL
    /\ result.payload.submission = NULL
    /\ result.payload.error = "none"

\* C36: when the save request throws (a network error, FETCH_TIMEOUT or
\* DEADLINE_EXCEEDED) the result of variant 0 is 200 with status submitted and
\* no archive URL, never blocked and never an error.
C36_ThrownSaveIsSubmitted ==
    hist.saveFailure # "none"
        => /\ hist.saveIndex \in {-1, 0}
           /\ req.index = 0 => (rv.attempt # NULL /\ SubmittedWithoutUrl(rv.attempt))
           /\ Len(hist.outcomes) >= 1 => SubmittedWithoutUrl(hist.outcomes[1])

\* the save request timed out and variant 0 came out submitted
C36_Witness ==
    /\ hist.saveFailure = "timeout"
    /\ Len(hist.outcomes) >= 1
    /\ SubmittedWithoutUrl(hist.outcomes[1])


\* the variant whose result became the response: the archived one ends the
\* loop at once, otherwise the best fallback is returned
ProducerIndex ==
    IF response.statusCode = 200 /\ response.payload.status = "archived"
    THEN Len(hist.outcomes) - 1
    ELSE hist.fallbackIndex

\* originalUrl and resolvedUrl as a 200 result of variant `variant` carries them
DecoratedFor(payload, variant) ==
    /\ payload.originalUrl = req.event.url.parsed
    /\ (payload.resolvedUrl # NULL) <=> (variant # req.requestedUrl)
    /\ payload.resolvedUrl # NULL => payload.resolvedUrl = variant

Undecorated(payload) == payload.originalUrl = NULL /\ payload.resolvedUrl = NULL

\* C37: every 200 response carries originalUrl, the requested URL without
\* its fragment, whichever variant produced it; resolvedUrl is there exactly
\* when that variant is not the requested URL, and is that variant; a
\* non-200 response or result carries neither field.
C37_OriginalAndResolvedUrl ==
    /\ \A i \in 1..Len(hist.outcomes) :
         IF hist.outcomes[i].statusCode = 200
         THEN DecoratedFor(hist.outcomes[i].payload, req.variants[i])
         ELSE Undecorated(hist.outcomes[i].payload)
    /\ response # NULL =>
         IF response.statusCode = 200
         THEN /\ ProducerIndex \in 0..(Len(hist.outcomes) - 1)
              /\ response = hist.outcomes[ProducerIndex + 1]
              /\ DecoratedFor(response.payload, req.variants[ProducerIndex + 1])
         ELSE Undecorated(response.payload)

\* a request with a fragment answered 200 from a later variant, after the
\* requested URL itself gave a 200 result too
C37_Witness ==
    /\ response # NULL
    /\ response.statusCode = 200
    /\ req.event.url.hash
    /\ ProducerIndex > 0
    /\ response.payload.resolvedUrl = req.variants[ProducerIndex + 1]
    /\ hist.outcomes[1].statusCode = 200
    /\ hist.outcomes[1].payload.resolvedUrl = NULL


\* C38: a call made through fetchWithDeadline with a deadline and the
\* default reserve of 250 ms sets an abort timer that fires no later than the
\* deadline: start + max(250, min(perCallTimeout, deadline - start - 250))
\* is at most the deadline, the floor of 250 ms being no more than the reserve.
C38_TimerFiresByDeadline ==
    (/\ probe.kind = "fetch"
     /\ probe.deadlineMs # 0
     /\ probe.reserveMs = DEADLINE_RESERVE_MS
     /\ probe.outcome.issued)
        => /\ probe.outcome.timeoutMs =
                Max(250, Min(probe.timeoutMs, probe.deadlineMs - probe.t - 250))
           /\ probe.t + probe.outcome.timeoutMs <= probe.deadlineMs
           /\ MIN_FETCH_TIMEOUT_MS <= DEADLINE_RESERVE_MS

\* 300 ms before the deadline 50 ms remain beyond the reserve: the timer is
\* raised to the floor of 250 ms and still fires before the deadline
C38_Witness ==
    /\ probe.kind = "fetch"
    /\ probe.deadlineMs = 2000
    /\ probe.t = 1700
    /\ probe.reserveMs = DEADLINE_RESERVE_MS
    /\ probe.timeoutMs = API_FETCH_TIMEOUT_MS
    /\ probe.outcome.issued
    /\ probe.outcome.timeoutMs = 250
    /\ probe.t + probe.outcome.timeoutMs = 1950

=============================================================================
